---- MODULE Spec2Model ----
(***************************************************************************)
(* Model of the salon booking back end (chatbot/service_views.py,          *)
(* chatbot/models.py) and of the conversational front end                  *)
(* (chatbot/chatbot.py).                                                   *)
(*                                                                         *)
(* Time is counted in minutes.  An instant is a number of minutes since    *)
(* 00:00 of day 0; a date is a day number; a time of day is a number of    *)
(* minutes since midnight.  Day 0 is a Saturday.                           *)
(***************************************************************************)
EXTENDS Integers, Sequences, FiniteSets, TLC

VARIABLES
    bookings,    \* the Booking table, in id order (row i has id i); rows are never deleted
    customers,   \* the Customer table: email -> first name, or NoCustomer
    now,         \* the wall clock (datetime.now())
    resp,        \* the HTTP response of the handler that ran last
    req,         \* per client: the commit request it has in flight, or Idle
    conversation_state,  \* chatbot.conversation_state: user_id -> session record
    bot,         \* the reply of the chat turn that ran last
    turn,        \* the locals of that turn: the stage and the intent post read
    workers,     \* per worker thread: the chat turn it has in flight, or Idle
    call         \* the function called last on its own: its arguments and what it returned

dbVars == <<bookings, customers, now>>
chatVars == <<conversation_state, bot, turn, workers, call>>
vars == <<bookings, customers, now, resp, req, conversation_state, bot, turn, workers, call>>

-----------------------------------------------------------------------------
(* Bounds of the model *)

\* rows the Booking table may hold
MaxBookings == 2
\* times the clock advances
MaxTicks == 2
\* the dates a request may name are 0..MaxDate
MaxDate == 1

-----------------------------------------------------------------------------
(* Calendar *)

MinutesPerDay == 24 * 60
StartNow == 9 * 60
ClockStep == 18 * 60

\* datetime.date() and datetime.time() of an instant
DateOf(t) == t \div MinutesPerDay
TimeOf(t) == t % MinutesPerDay

\* date.weekday(): Monday = 0 .. Sunday = 6; day 0 is a Saturday
weekday(d) == (d + 5) % 7

\* the instants at which the clock is read
Instants == {StartNow + k * ClockStep : k \in 0..MaxTicks}

Pad2(n) == IF n < 10 THEN "0" \o ToString(n) ELSE ToString(n)

\* time.strftime("%H:%M")
strftime_HM(t) == Pad2(t \div 60) \o ":" \o Pad2(t % 60)

\* strftime tabulated over the times of a day: computed once, looked up by the engine
strftime_HM_table == [t \in 0..(MinutesPerDay - 1) |-> strftime_HM(t)]

-----------------------------------------------------------------------------
(* Configuration and seeded catalogue *)

\* BUSINESS_HOURS
closed_days == {6}
slot_duration == 30
buffer_time == 15

\* Staff rows
Staff ==
    { [id |-> 1, first_name |-> "Ann", last_name |-> "Lee"],
      [id |-> 2, first_name |-> "Bob", last_name |-> "Ray"] }

StaffIds == {s.id : s \in Staff}

\* StaffAvailability rows; (staff, day_of_week) is unique
StaffAvailability ==
    { [staff |-> 1, day_of_week |-> 5, start_time |-> 9 * 60, end_time |-> 10 * 60 + 30],
      [staff |-> 1, day_of_week |-> 6, start_time |-> 9 * 60, end_time |-> 10 * 60 + 30],
      [staff |-> 1, day_of_week |-> 0, start_time |-> 9 * 60, end_time |-> 10 * 60 + 30],
      [staff |-> 2, day_of_week |-> 5, start_time |-> 9 * 60 + 45, end_time |-> 10 * 60 + 30],
      [staff |-> 2, day_of_week |-> 0, start_time |-> 9 * 60 + 45, end_time |-> 10 * 60 + 30] }

\* SERVICE_MODELS and the rows of the service tables
SERVICE_MODELS == {"haircut", "beard", "facial", "spa"}

Services ==
    { [service_type |-> "haircut", id |-> 1, duration_minutes |-> 30, staff |-> {1, 2}],
      [service_type |-> "spa", id |-> 1, duration_minutes |-> 60, staff |-> {1}] }

NoCustomer == "<none>"
Emails == {"a@x.io", "b@x.io"}
FirstNames == {"Ann", "Zoe"}

Idle == [pc |-> "idle"]

\* a call of a function: its name, its arguments, what it returned
Call(fn, args, result) == [fn |-> fn, args |-> args, result |-> result]

\* no function called yet
NoCall == Call("", <<>>, <<>>)

Clients == {1, 2}

-----------------------------------------------------------------------------
(* Slot availability engine: get_available_slots_for_staff *)

RECURSIVE possible_slots_without_buffer(_, _, _, _)
\* (mutant) the next slot starts where the one before ends
possible_slots_without_buffer(current, end_dt, duration, buffer) ==
    IF current + duration <= end_dt
    THEN <<current>> \o possible_slots_without_buffer(current + duration, end_dt, duration, buffer)
    ELSE <<>>

RECURSIVE possible_slots(_, _, _, _)
\* the while loop that generates all possible slots
possible_slots(current, end_dt, duration, buffer) ==
    IF current + duration <= end_dt
    THEN <<current>> \o possible_slots(current + duration + buffer, end_dt, duration, buffer)
    ELSE <<>>

\* StaffAvailability.objects.filter(staff, day_of_week)
availability_of(staff, day_of_week) ==
    {a \in StaffAvailability : a.staff = staff /\ a.day_of_week = day_of_week}

\* the duration the engine uses for a service
duration_of(service) ==
    IF service.duration_minutes # 0 THEN service.duration_minutes ELSE slot_duration

\* the candidate sequence of a service and staff on a date (before any filtering)
candidate_slots(service, staff, booking_date) ==
    LET av == availability_of(staff, weekday(booking_date))
    IN  IF av = {} \/ duration_of(service) <= 0
        THEN <<>>
        ELSE LET a == CHOOSE x \in av : TRUE
             IN  possible_slots(a.start_time, a.end_time, duration_of(service), buffer_time)

\* (mutant) the booking query without its status filter
StatusOccupies_any(status) == TRUE

\* the status filter of the engine's booking query
StatusOccupies(status) == status \in {"confirmed", "pending"}

\* (mutant) the booking query without its staff filter
existing_bookings_any_staff(staff, booking_date) ==
    LET rows == SelectSeq(bookings, LAMBDA b :
                    /\ b.booking_date = booking_date
                    /\ b.status \in {"confirmed", "pending"})
    IN  [i \in 1..Len(rows) |-> rows[i].booking_time]

\* Booking.objects.filter(staff, booking_date, status__in).values_list('booking_time')
existing_bookings(staff, booking_date) ==
    LET rows == SelectSeq(bookings, LAMBDA b :
                    /\ b.staff = staff
                    /\ b.booking_date = booking_date
                    /\ StatusOccupies(b.status))
    IN  [i \in 1..Len(rows) |-> rows[i].booking_time]

SeqRange(s) == {s[i] : i \in 1..Len(s)}

\* (mutant) a slot that starts at the current time is kept
IsPast_strict(slot, current_time) == slot < current_time

\* the comparison that drops a slot of today as past
IsPast(slot, current_time) == ~(slot > current_time)

\* the filter of past slots, applied when the date is today
drop_past(slots, booking_date) ==
    IF booking_date = DateOf(now)
    THEN SelectSeq(slots, LAMBDA slot : ~IsPast(slot, TimeOf(now)))
    ELSE slots

\* returns <<available_slots_str, booked_times_str>>
get_available_slots_for_staff(service, staff, booking_date) ==
    LET existing == existing_bookings(staff, booking_date)
        kept == drop_past(candidate_slots(service, staff, booking_date), booking_date)
        free == SelectSeq(kept, LAMBDA slot : slot \notin SeqRange(existing))
    IN  IF availability_of(staff, weekday(booking_date)) = {} \/ duration_of(service) <= 0
        THEN << <<>>, <<>> >>
        ELSE << [i \in 1..Len(free) |-> strftime_HM_table[free[i]]],
                [i \in 1..Len(existing) |-> strftime_HM_table[existing[i]]] >>

\* the loop of the possible slots run on its own over a window of a day
possible_slots_call(start_dt, end_dt, duration, buffer) ==
    /\ call' = Call("possible_slots", <<start_dt, end_dt, duration, buffer>>,
                    possible_slots(start_dt, end_dt, duration, buffer))
    /\ UNCHANGED <<bookings, customers, now, resp, req, conversation_state, bot, turn, workers>>

\* a call of get_available_slots_for_staff on its own
get_available_slots_for_staff_call(service, staff, booking_date) ==
    /\ call' = Call("get_available_slots_for_staff", <<service, staff, booking_date>>,
                    get_available_slots_for_staff(service, staff, booking_date))
    /\ UNCHANGED <<bookings, customers, now, resp, req, conversation_state, bot, turn, workers>>

-----------------------------------------------------------------------------
(* Commit: BookServiceAPIView.post of service_views.py *)

\* the dates and times a request may name
BookingDates == 0..MaxDate
BookingTimes == {9 * 60, 9 * 60 + 45}

\* well-formed commit requests
ValidForms ==
    [ form : {"ok"},
      customer_email : Emails,
      customer_first_name : FirstNames,
      service_type : {"haircut", "spa", "nails"},
      staff_id : StaffIds \cup {9},
      booking_date : BookingDates,
      booking_time : BookingTimes ]

\* requests with a missing field, a bad e-mail address, a date or time that does not parse
BadForms ==
    [ form : {"missing", "bad_email", "bad_datetime"},
      customer_email : {"a@x.io"},
      customer_first_name : {"Ann"},
      service_type : {"haircut"},
      staff_id : {1},
      booking_date : {0},
      booking_time : {9 * 60} ]

\* the requests of one customer, well-formed or not
CommitInputs == {d \in ValidForms : d.customer_email = "a@x.io"} \cup BadForms

\* the requests of one customer for haircuts with known staff
SlotInputs ==
    {d \in ValidForms : /\ d.service_type = "haircut"
                        /\ d.staff_id \in StaffIds
                        /\ d.customer_email = "a@x.io"
                        /\ d.customer_first_name = "Ann"}

\* the requests of two customers for haircuts with known staff
RaceInputs ==
    {d \in ValidForms : /\ d.service_type = "haircut"
                        /\ d.staff_id \in StaffIds
                        /\ d.customer_first_name = "Ann"}

Response(status, success, booking_id) ==
    [status |-> status, success |-> success, booking_id |-> booking_id]

NoResponse == Response(0, FALSE, 0)

\* Customer.objects.get_or_create, then the update of an existing row
customer_saved(data) ==
    [customers EXCEPT ![data.customer_email] = data.customer_first_name]

\* service_model.objects.filter(staff=staff)
service_for(data) ==
    {s \in Services : s.service_type = data.service_type /\ data.staff_id \in s.staff}

\* the validation of the request before the transaction: 0 when it passes
form_status(data) ==
    CASE data.form = "ok" -> 0
      [] data.form = "bad_datetime" -> 500
      [] OTHER -> 400

\* the validation of service and staff inside the transaction: 0 when it passes
lookup_status(data) ==
    IF data.service_type \notin SERVICE_MODELS \/ data.staff_id \notin StaffIds THEN 400
    ELSE IF service_for(data) = {} THEN 400
    ELSE 0

\* Booking.objects.filter(staff, date, time, status__in=['confirmed', 'pending']): the ids
existing_booking(data) ==
    {i \in 1..Len(bookings) :
        /\ bookings[i].staff = data.staff_id
        /\ bookings[i].booking_date = data.booking_date
        /\ bookings[i].booking_time = data.booking_time
        /\ bookings[i].status \in {"confirmed", "pending"}}

\* whether the handler stops when its conflict check found a booking: it logs a
\* warning and goes on to create the booking
conflict_blocks(existing) == FALSE

\* the row Booking.objects.create writes
new_booking(data) ==
    [ staff |-> data.staff_id,
      booking_date |-> data.booking_date,
      booking_time |-> data.booking_time,
      service_type |-> data.service_type,
      status |-> "confirmed",
      created_at |-> now ]

NoRequestInFlight == \A c \in Clients : req[c].pc # "checked"

\* The handler run by client c from start to end with no other request in between.
BookServiceAPIView_post(c, data) ==
    /\ NoRequestInFlight
    /\ Len(bookings) < MaxBookings
    /\ IF form_status(data) # 0
       THEN /\ resp' = [resp EXCEPT ![c] = Response(form_status(data), FALSE, 0)]
            /\ UNCHANGED <<customers, bookings>>
       ELSE IF lookup_status(data) # 0
       THEN /\ customers' = customer_saved(data)
            /\ resp' = [resp EXCEPT ![c] = Response(lookup_status(data), FALSE, 0)]
            /\ UNCHANGED bookings
       ELSE IF conflict_blocks(existing_booking(data) # {})
       THEN /\ customers' = customer_saved(data)
            /\ resp' = [resp EXCEPT ![c] = Response(409, FALSE, 0)]
            /\ UNCHANGED bookings
       ELSE /\ customers' = customer_saved(data)
            /\ bookings' = Append(bookings, new_booking(data))
            /\ resp' = [resp EXCEPT ![c] = Response(201, TRUE, Len(bookings) + 1)]
    /\ UNCHANGED <<now, req>>
    /\ UNCHANGED chatVars

\* the Customer row of an e-mail address is locked by a transaction that wrote it
customer_locked(c, email) ==
    \E k \in Clients \ {c} : req[k].pc = "checked" /\ req[k].data.customer_email = email

\* The handler of client c up to and including its conflict check. Its write of the
\* Customer row waits for any open transaction that wrote the same row.
CommitCheck(c, data) ==
    /\ req[c].pc # "checked"
    /\ form_status(data) = 0 => ~customer_locked(c, data.customer_email)
    /\ Len(bookings) + Cardinality({k \in Clients : req[k].pc = "checked"}) < MaxBookings
    /\ IF form_status(data) # 0
       THEN /\ resp' = [resp EXCEPT ![c] = Response(form_status(data), FALSE, 0)]
            /\ UNCHANGED <<customers, req>>
       ELSE IF lookup_status(data) # 0
       THEN /\ customers' = customer_saved(data)
            /\ resp' = [resp EXCEPT ![c] = Response(lookup_status(data), FALSE, 0)]
            /\ UNCHANGED req
       ELSE /\ customers' = customer_saved(data)
            /\ req' = [req EXCEPT ![c] =
                        [pc |-> "checked", data |-> data,
                         existing |-> existing_booking(data) # {}]]
            /\ resp' = [resp EXCEPT ![c] = NoResponse]
    /\ UNCHANGED <<bookings, now>>
    /\ UNCHANGED chatVars

\* The rest of the handler of client c: create the booking and answer.
CommitCreate(c) ==
    /\ req[c].pc = "checked"
    /\ IF conflict_blocks(req[c].existing)
       THEN /\ resp' = [resp EXCEPT ![c] = Response(409, FALSE, 0)]
            /\ UNCHANGED bookings
       ELSE /\ bookings' = Append(bookings, new_booking(req[c].data))
            /\ resp' = [resp EXCEPT ![c] = Response(201, TRUE, Len(bookings) + 1)]
    /\ req' = [req EXCEPT ![c].pc = "done"]
    /\ UNCHANGED <<customers, now>>
    /\ UNCHANGED chatVars

\* validate_business_hours: no handler calls it
validate_business_hours(booking_date, booking_time) ==
    /\ weekday(booking_date) \notin closed_days
    /\ 9 * 60 <= booking_time
    /\ booking_time <= 18 * 60

-----------------------------------------------------------------------------
(* Cancel: BookingStatusAPIView.patch *)

BookingStatusAPIView_patch(c, booking_id, action) ==
    /\ NoRequestInFlight
    /\ IF booking_id \notin 1..Len(bookings)
       THEN /\ resp' = [resp EXCEPT ![c] = Response(404, FALSE, 0)]
            /\ UNCHANGED bookings
       ELSE IF action = "cancel"
       THEN /\ bookings' = [bookings EXCEPT ![booking_id].status = "cancelled"]
            /\ resp' = [resp EXCEPT ![c] = Response(200, TRUE, booking_id)]
       ELSE /\ resp' = [resp EXCEPT ![c] = Response(400, FALSE, 0)]
            /\ UNCHANGED bookings
    /\ UNCHANGED <<customers, now, req>>
    /\ UNCHANGED chatVars

-----------------------------------------------------------------------------
(* Expire: cleanup_expired_bookings *)

\* the rows the sweep selects: pending and created more than 24 hours ago
is_expired(b) == b.status = "pending" /\ b.created_at < now - 24 * 60

cleanup_expired_bookings ==
    /\ NoRequestInFlight
    /\ \E i \in 1..Len(bookings) : is_expired(bookings[i])
    /\ bookings' = [i \in 1..Len(bookings) |->
                        IF is_expired(bookings[i])
                        THEN [bookings[i] EXCEPT !.status = "expired"]
                        ELSE bookings[i]]
    /\ UNCHANGED <<customers, now, resp, req>>
    /\ UNCHANGED chatVars

-----------------------------------------------------------------------------
(* Text: the str methods and regular expressions chatbot.py uses *)

\* s[i-1:i]
Char(s, i) == SubSeq(s, i, i)

UpperCase == <<"A", "B", "C", "D", "E", "F", "G", "H", "I", "J", "K", "L", "M",
               "N", "O", "P", "Q", "R", "S", "T", "U", "V", "W", "X", "Y", "Z">>
LowerCase == <<"a", "b", "c", "d", "e", "f", "g", "h", "i", "j", "k", "l", "m",
               "n", "o", "p", "q", "r", "s", "t", "u", "v", "w", "x", "y", "z">>
DigitChars == {"0", "1", "2", "3", "4", "5", "6", "7", "8", "9"}

lower_char(c) ==
    IF \E k \in 1..Len(UpperCase) : UpperCase[k] = c
    THEN LowerCase[CHOOSE k \in 1..Len(UpperCase) : UpperCase[k] = c]
    ELSE c

RECURSIVE lower(_)
\* str.lower()
lower(s) == IF s = "" THEN "" ELSE lower_char(Char(s, 1)) \o lower(SubSeq(s, 2, Len(s)))

RECURSIVE strip(_)
\* str.strip()
strip(s) ==
    IF s = "" THEN ""
    ELSE IF Char(s, 1) = " " THEN strip(SubSeq(s, 2, Len(s)))
    ELSE IF Char(s, Len(s)) = " " THEN strip(SubSeq(s, 1, Len(s) - 1))
    ELSE s

\* keyword in s
Contains(s, keyword) ==
    \E i \in 1..(Len(s) - Len(keyword) + 1) : SubSeq(s, i, i + Len(keyword) - 1) = keyword

\* s.endswith(suffix)
endswith(s, suffix) ==
    Len(suffix) <= Len(s) /\ SubSeq(s, Len(s) - Len(suffix) + 1, Len(s)) = suffix

IsDigit(c) == c \in DigitChars

\* \w of a regular expression
IsWordChar(c) ==
    \/ IsDigit(c)
    \/ c = "_"
    \/ \E k \in 1..Len(LowerCase) : LowerCase[k] = c \/ UpperCase[k] = c

\* \b of a regular expression between s[i-1] and s[i] (positions 1..Len(s)+1)
WordBoundary(s, i) ==
    LET before == i > 1 /\ IsWordChar(Char(s, i - 1))
        after == i <= Len(s) /\ IsWordChar(Char(s, i))
    IN  before # after

AllDigits(s, i, j) == \A k \in i..j : IsDigit(Char(s, k))

\* str.isdigit(), and the pattern ^\d+$
isdigit(s) == s # "" /\ AllDigits(s, 1, Len(s))

DigitValue(c) == CHOOSE n \in 0..9 : ToString(n) = c

RECURSIVE int(_)
\* int(s) of a string of digits
int(s) == IF s = "" THEN 0 ELSE 10 * int(SubSeq(s, 1, Len(s) - 1)) + DigitValue(Char(s, Len(s)))

\* the matches <<first, last>> of \b\d{1,2}:\d{2}\b in s
time_matches(s) ==
    {m \in (1..Len(s)) \X (1..Len(s)) :
        /\ m[2] - m[1] \in {3, 4}
        /\ WordBoundary(s, m[1])
        /\ WordBoundary(s, m[2] + 1)
        /\ AllDigits(s, m[1], m[2] - 3)
        /\ Char(s, m[2] - 2) = ":"
        /\ AllDigits(s, m[2] - 1, m[2])}

\* the matches <<first, last>> of \b(\d+)\b in s
number_matches(s) ==
    {m \in (1..Len(s)) \X (1..Len(s)) :
        /\ m[1] <= m[2]
        /\ AllDigits(s, m[1], m[2])
        /\ WordBoundary(s, m[1])
        /\ WordBoundary(s, m[2] + 1)}

\* re.search: the leftmost match, as the text matched; <<>> for None
leftmost(s, matches) ==
    IF matches = {} THEN <<>>
    ELSE LET m == CHOOSE x \in matches : \A y \in matches : x[1] <= y[1]
         IN  <<SubSeq(s, m[1], m[2])>>

\* re.search(r'\bword\b', s) for a fixed word or phrase
word_search(s, word) ==
    \E i \in 1..(Len(s) - Len(word) + 1) :
        /\ SubSeq(s, i, i + Len(word) - 1) = word
        /\ WordBoundary(s, i)
        /\ WordBoundary(s, i + Len(word))

-----------------------------------------------------------------------------
(* Intent classification and the parsers of chatbot.py *)

\* Optional values: None is the empty tuple, a value x is <<x>>
None == <<>>
Some(x) == <<x>>

\* INTENTS, in the order of the dictionary; each with its keywords
INTENTS ==
    << <<"greeting", <<"hi", "hello", "hey", "good morning", "good afternoon",
                       "good evening", "yo", "hiya", "start">> >>,
       <<"thanks", <<"thanks", "thank you", "thx", "ty", "thank u", "thanks a lot",
                     "appreciate">> >>,
       <<"service_request", <<"haircut", "hair cut", "beard", "facial", "spa", "massage",
                              "shave", "trim">> >>,
       <<"date_keywords", <<"today", "tomorrow", "next day", "day after tomorrow",
                            "monday", "tuesday", "wednesday", "thursday", "friday",
                            "saturday", "sunday", "next week", "this week">> >>,
       <<"pricing", <<"price", "cost", "how much", "charge", "fee", "rates", "pricing",
                      "expensive", "cheap">> >>,
       <<"working_hours", <<"open", "close", "working hours", "timing", "hours",
                            "schedule", "when open">> >>,
       <<"cancel_restart", <<"cancel", "restart", "start over", "reset", "new booking",
                             "begin again">> >>,
       <<"help", <<"help", "what can you do", "options", "commands">> >>,
       <<"slot_selection", <<>> >>,
       <<"unknown", <<>> >> >>

\* any(keyword in message_lower for keyword in keywords)
any_keyword(message_lower, keywords) ==
    \E k \in 1..Len(keywords) : Contains(message_lower, keywords[k])

\* the calendar month of the model: day 0 is the 1st of a month of DaysInMonth days
DaysInMonth == 30
day_of_month(d) == (d % DaysInMonth) + 1

\* date.replace(day=day): None for the ValueError of a day the month does not have
replace_day(d, day) ==
    IF day >= 1 /\ day <= DaysInMonth THEN Some(d - day_of_month(d) + day) ELSE None

\* the numbers of a text that are not part of an HH:MM time
free_numbers(s) ==
    {m \in number_matches(s) :
        \A t \in time_matches(s) : m[2] < t[1] \/ m[1] > t[2]}

\* dateutil.parser.parse(timestr, fuzzy=True).date(), for texts whose words are no
\* month or weekday names and that hold at most one number (of one or two digits, read
\* as the day of the current month) besides HH:MM times (read as a time of today);
\* None for the exception raised when the text holds neither or the day is not in the
\* month
parse_date(timestr, today) ==
    IF free_numbers(timestr) # {}
    THEN replace_day(today, int(leftmost(timestr, free_numbers(timestr))[1]))
    ELSE IF time_matches(timestr) # {} THEN Some(today)
    ELSE None

\* is_date_message
is_date_message(message_lower, today) ==
    \/ parse_date(message_lower, today) # None
    \/ \E w \in {"today", "tomorrow", "next day", "day after tomorrow",
                 "this week", "this month", "next week", "next month",
                 "monday", "tuesday", "wednesday", "thursday", "friday",
                 "saturday", "sunday"} : word_search(message_lower, w)

\* (mutant) the last intent of the dictionary with a keyword in the message wins
detect_intent_last(message, today) ==
    LET message_lower == strip(lower(message))
        hits == {k \in 1..Len(INTENTS) : any_keyword(message_lower, INTENTS[k][2])}
    IN  IF hits # {} THEN INTENTS[CHOOSE k \in hits : \A j \in hits : k >= j][1]
        ELSE IF is_date_message(message_lower, today) THEN "date_keywords"
        ELSE IF time_matches(message_lower) # {} \/ isdigit(strip(message_lower))
             THEN "slot_selection"
        ELSE "unknown"

\* detect_intent
detect_intent(message, today) ==
    LET message_lower == strip(lower(message))
        hits == {k \in 1..Len(INTENTS) : any_keyword(message_lower, INTENTS[k][2])}
    IN  IF hits # {} THEN INTENTS[CHOOSE k \in hits : \A j \in hits : k <= j][1]
        ELSE IF is_date_message(message_lower, today) THEN "date_keywords"
        ELSE IF time_matches(message_lower) # {} \/ isdigit(strip(message_lower))
             THEN "slot_selection"
        ELSE "unknown"

\* a call of detect_intent on its own, on the day of the clock
detect_intent_call(message) ==
    /\ call' = Call("detect_intent", <<message, DateOf(now)>>,
                    detect_intent(message, DateOf(now)))
    /\ UNCHANGED <<bookings, customers, now, resp, req, conversation_state, bot, turn, workers>>

\* day_names of parse_user_date, in the order of the dictionary (index - 1 is the number)
day_names == <<"monday", "tuesday", "wednesday", "thursday", "friday", "saturday", "sunday">>

\* re.search(r'this month (\d{1,2})', s): the digits matched, or None
this_month_match(s) ==
    LET prefix == "this month "
        starts == {i \in 1..(Len(s) - Len(prefix)) :
                      /\ SubSeq(s, i, i + Len(prefix) - 1) = prefix
                      /\ IsDigit(Char(s, i + Len(prefix)))}
    IN  IF starts = {} THEN None
        ELSE LET i == (CHOOSE x \in starts : \A y \in starts : x <= y) + Len(prefix)
             IN  IF i + 1 <= Len(s) /\ IsDigit(Char(s, i + 1))
                 THEN Some(SubSeq(s, i, i + 1))
                 ELSE Some(SubSeq(s, i, i))

\* the fuzzy parsing at the end of parse_user_date
parse_user_date_fuzzy(message, today) ==
    LET parsed_date == parse_date(message, today)
    IN  IF parsed_date = None THEN None
        ELSE IF parsed_date[1] < today THEN None
        ELSE parsed_date

\* (mutant) the weekday of today named in the message is today
parse_user_date_same_day(message, today) ==
    LET message_lower == strip(lower(message))
        named == {k \in 1..Len(day_names) : Contains(message_lower, day_names[k])}
        match == this_month_match(message_lower)
    IN  IF message = "" THEN None
        ELSE IF Contains(message_lower, "today") THEN Some(today)
        ELSE IF Contains(message_lower, "tomorrow") \/ Contains(message_lower, "next day")
             THEN Some(today + 1)
        ELSE IF Contains(message_lower, "day after tomorrow") THEN Some(today + 2)
        ELSE IF named # {}
             THEN LET day_num == (CHOOSE k \in named : \A j \in named : k <= j) - 1
                      days_ahead == day_num - weekday(today)
                  IN  Some(today + (IF days_ahead < 0 THEN days_ahead + 7 ELSE days_ahead))
        ELSE IF match # None /\ replace_day(today, int(match[1])) # None
             THEN replace_day(today, int(match[1]))
        ELSE parse_user_date_fuzzy(message, today)

\* parse_user_date; today is datetime.today().date()
parse_user_date(message, today) ==
    LET message_lower == strip(lower(message))
        named == {k \in 1..Len(day_names) : Contains(message_lower, day_names[k])}
        match == this_month_match(message_lower)
    IN  IF message = "" THEN None
        ELSE IF Contains(message_lower, "today") THEN Some(today)
        ELSE IF Contains(message_lower, "tomorrow") \/ Contains(message_lower, "next day")
             THEN Some(today + 1)
        ELSE IF Contains(message_lower, "day after tomorrow") THEN Some(today + 2)
        ELSE IF named # {}
             THEN LET day_num == (CHOOSE k \in named : \A j \in named : k <= j) - 1
                      days_ahead == day_num - weekday(today)
                  IN  Some(today + (IF days_ahead <= 0 THEN days_ahead + 7 ELSE days_ahead))
        ELSE IF match # None /\ replace_day(today, int(match[1])) # None
             THEN replace_day(today, int(match[1]))
        ELSE parse_user_date_fuzzy(message, today)

\* a call of parse_user_date on its own, on the day of the clock
parse_user_date_call(message) ==
    /\ call' = Call("parse_user_date", <<message, DateOf(now)>>,
                    parse_user_date(message, DateOf(now)))
    /\ UNCHANGED <<bookings, customers, now, resp, req, conversation_state, bot, turn, workers>>

\* parse_slot_number
parse_slot_number(message) ==
    IF isdigit(strip(message)) THEN Some(strip(message))
    ELSE leftmost(strip(message), number_matches(strip(message)))

\* parse_time_from_message
parse_time_from_message(message) == leftmost(message, time_matches(message))

\* service_mappings of validate_service_type, in the order of the dictionary
service_mappings ==
    << <<"haircut", <<"haircut", "hair cut", "hair", "cut">> >>,
       <<"beard", <<"beard", "shave", "trim beard">> >>,
       <<"facial", <<"facial", "face", "skincare">> >>,
       <<"spa", <<"spa", "massage", "relax", "therapy">> >> >>

\* validate_service_type
validate_service_type(message) ==
    LET hits == {k \in 1..Len(service_mappings) :
                    any_keyword(lower(message), service_mappings[k][2])}
    IN  IF hits = {} THEN None
        ELSE Some(service_mappings[CHOOSE k \in hits : \A j \in hits : k <= j][1])

\* (mutant) every day a business day
is_business_day_always(date_obj) == TRUE

\* is_business_day
is_business_day(date_obj) == weekday(date_obj) < 6

-----------------------------------------------------------------------------
(* The messages of the model *)

\* the users that talk to the bot; a request may also lack its user_id
Users == {"u1"}

\* the worker threads of the server that may serve chat turns at the same time
Workers == {1, 2}

\* the messages users send (as received, before str.strip())
ChatMessages ==
    { "hi", "haircut", "haircut tomorrow", "spa today", "monday", "1", "2", "09:45",
      "thanks", "cancel", " Reset ", " Start Over ", "help", "price", "timing",
      "what", "" }

\* the messages that post hands to the handler of the stage
DialogMessages ==
    { "hi", "haircut", "haircut tomorrow", "spa today", "monday", "tuesday", "1", "2",
      "09:45", "2:00", "last", "thanks", "what" }

\* the messages of a booking made in four turns
ScenarioMessages == <<"hi", "haircut tomorrow", "1", "thanks">>

\* the instants at which such a booking starts: the first Sunday at 03:00, and 09:00
\* of a Friday that is the 1st of a month (day 90); the salon is open the day after both
ScenarioInstants == {StartNow + ClockStep, 90 * MinutesPerDay + StartNow}

\* the dates on which a turn may run
ChatDays == {DateOf(t) : t \in Instants \cup ScenarioInstants}

\* the texts the handlers parse: a message as stripped by post, and the text
\* _handle_slot_selection makes of the service type and the message
Texts ==
    {strip(raw) : raw \in ChatMessages \cup DialogMessages} \cup
    {service_type \o " " \o strip(raw) :
        service_type \in SERVICE_MODELS \cup {"None"},
        raw \in ChatMessages \cup DialogMessages}

\* The parsers tabulated over the texts and dates of the model: each is computed once
\* for each text, and a turn looks its result up.
strip_table == [raw \in ChatMessages \cup DialogMessages |-> strip(raw)]
detect_intent_table == [message \in Texts, today \in ChatDays |-> detect_intent(message, today)]
parse_user_date_table == [message \in Texts, today \in ChatDays |-> parse_user_date(message, today)]
validate_service_type_table == [message \in Texts |-> validate_service_type(message)]
parse_slot_number_table == [message \in Texts |-> parse_slot_number(message)]
parse_time_from_message_table == [message \in Texts |-> parse_time_from_message(message)]

-----------------------------------------------------------------------------
(* Conversation: ChatbotAPIView of chatbot.py *)

\* the reply of a turn: HTTP status, the error flag, and which text the bot sends
Reply(status, error, text) == [status |-> status, error |-> error, bot |-> text]

NoReply == Reply(0, FALSE, "")

\* stage = state["stage"] and intent = detect_intent(message) of post; a turn that
\* returns before it reads them has neither
Locals(stage, intent) == [stage |-> stage, intent |-> intent]

NoLocals == Locals("", "")

\* what a stage handler leaves behind: the session record and the reply
Outcome(state, reply) == [state |-> state, reply |-> reply]

\* the record of a user seen for the first time
new_state(t) ==
    [ stage |-> "greeting",
      service_type |-> None,
      selected_slot |-> None,
      requested_date |-> None,
      available_slots |-> <<>>,
      slot_map |-> <<>>,
      last_activity |-> t ]

\* (mutant) a restart that keeps the requested date
reset_state_keep_date(state) ==
    [new_state(state.last_activity) EXCEPT !.requested_date = state.requested_date]

\* state.update({...}) of a restart: everything but last_activity
reset_state(state) == new_state(state.last_activity)

\* the minutes of an "HH:MM" text
minutes_of(hm) == 60 * int(SubSeq(hm, 1, 2)) + int(SubSeq(hm, 4, 5))

\* minutes_of tabulated over the "HH:MM" texts of a day
minutes_of_table ==
    [hm \in {strftime_HM_table[t] : t \in 0..(MinutesPerDay - 1)} |-> minutes_of(hm)]

RECURSIVE sorted_times(_)
\* sorted(list(set(available_slots))) of zero-padded "HH:MM" texts
sorted_times(S) ==
    IF S = {} THEN <<>>
    ELSE LET least == CHOOSE x \in S : \A y \in S : minutes_of_table[x] <= minutes_of_table[y]
         IN  <<least>> \o sorted_times(S \ {least})

\* the orders in which the storage may yield the rows of the staff table: the query
\* of service_instance.staff.all() names no ordering
StaffOrders ==
    {order \in [1..Cardinality(StaffIds) -> StaffIds] :
        \A i, j \in 1..Cardinality(StaffIds) : i # j => order[i] # order[j]}

\* what a read that fails yields
NoRows == <<>>

\* what the storage may do when a turn reads the slots
Reads == {<<FALSE, order>> : order \in StaffOrders} \cup {<<TRUE, NoRows>>}

\* service_instance.staff.all(): the staff of a service, in the order the storage
\* yields them
staff_all(ids, order) == SelectSeq(order, LAMBDA id : id \in ids)

staff_name_of(id) ==
    LET s == CHOOSE x \in Staff : x.id = id
    IN  s.first_name \o " " \o s.last_name

\* (mutant) the staff without open times are listed too
get_available_slots_keep_empty(service_type, date, fails, order) ==
    LET rows == {s \in Services : s.service_type = service_type /\ s.staff # {}}
    IN  IF fails \/ rows = {} THEN <<>>
        ELSE LET service == CHOOSE s \in rows : TRUE
                 staff == staff_all(service.staff, order)
             IN  [i \in 1..Len(staff) |->
                    << staff_name_of(staff[i]),
                       sorted_times(SeqRange(
                           get_available_slots_for_staff(service, staff[i], date)[1])) >>]

\* _get_available_slots: staff name -> open times, in order of insertion; a failure of
\* the storage is swallowed and leaves no slots
get_available_slots(service_type, date, fails, order) ==
    LET rows == {s \in Services : s.service_type = service_type /\ s.staff # {}}
    IN  IF fails \/ rows = {} THEN <<>>
        ELSE LET service == CHOOSE s \in rows : TRUE
                 staff == staff_all(service.staff, order)
                 kept == SelectSeq(staff, LAMBDA id :
                            get_available_slots_for_staff(service, id, date)[1] # <<>>)
             IN  [i \in 1..Len(kept) |->
                    << staff_name_of(kept[i]),
                       sorted_times(SeqRange(
                           get_available_slots_for_staff(service, kept[i], date)[1])) >>]

RECURSIVE make_slot_map_times_only(_)
\* (mutant) the offers are the times, without the name of the staff member
make_slot_map_times_only(available_slots) ==
    IF available_slots = <<>> THEN <<>>
    ELSE available_slots[1][2] \o make_slot_map_times_only(Tail(available_slots))

RECURSIVE make_slot_map(_)
\* the loop that numbers the offers: key str(counter) is the index in the sequence
make_slot_map(available_slots) ==
    IF available_slots = <<>> THEN <<>>
    ELSE LET staff_name == available_slots[1][1]
             times == available_slots[1][2]
         IN  [i \in 1..Len(times) |-> staff_name \o " " \o times[i]]
                \o make_slot_map(Tail(available_slots))

\* available_slots.get(staff_name, [])
slots_get(available_slots, staff_name) ==
    LET hits == {i \in 1..Len(available_slots) : available_slots[i][1] = staff_name}
    IN  IF hits = {} THEN <<>> ELSE available_slots[CHOOSE i \in hits : TRUE][2]

\* the index of the last blank of a text (0 when it has none)
last_blank(s) ==
    LET blanks == {i \in 1..Len(s) : Char(s, i) = " "}
    IN  IF blanks = {} THEN 0 ELSE CHOOSE i \in blanks : \A j \in blanks : j <= i

\* _handle_greeting_stage
handle_greeting_stage(state, intent, message) ==
    IF intent \in {"greeting", "service_request"}
    THEN LET service_type == validate_service_type_table[message]
         IN  IF service_type # None
             THEN Outcome([state EXCEPT !.service_type = service_type,
                                        !.stage = "choose_service"],
                          Reply(200, FALSE, "service_chosen"))
             ELSE Outcome([state EXCEPT !.stage = "choose_service"],
                          Reply(200, FALSE, "greeting"))
    ELSE Outcome(state, Reply(200, FALSE, "welcome"))

\* _handle_service_selection
handle_service_selection(state, intent, message, fails, order) ==
    LET service_type == validate_service_type_table[message]
        named == IF state.service_type = None
                 THEN [state EXCEPT !.service_type = service_type]
                 ELSE state
        parsed == parse_user_date_table[message, DateOf(now)]
        requested_date == IF parsed = None THEN DateOf(now) ELSE parsed[1]
        dated == [named EXCEPT !.requested_date = Some(requested_date)]
        available_slots == get_available_slots(named.service_type[1], requested_date, fails, order)
    IN  IF state.service_type = None /\ service_type = None
        THEN Outcome(state, Reply(200, FALSE, "choose_from_services"))
        ELSE IF ~is_business_day(requested_date)
        THEN Outcome(named, Reply(200, FALSE, "closed_on_sundays"))
        ELSE IF available_slots = <<>>
        THEN Outcome(dated, Reply(200, FALSE, "no_slots_available"))
        ELSE Outcome([dated EXCEPT !.available_slots = available_slots,
                                   !.stage = "pick_slot",
                                   !.slot_map = make_slot_map(available_slots)],
                     Reply(200, FALSE, "available_slots"))

\* (mutant) no message changes the date
date_change_never(new_date, state) == FALSE

\* "if new_date and new_date != state["requested_date"]": the message asks for
\* another date than the session's
date_change(new_date, state) == new_date # None /\ new_date # state.requested_date

\* _handle_slot_selection
handle_slot_selection(state, intent, message, fails, order) ==
    LET new_date == parse_user_date_table[message, DateOf(now)]
        slot_map == state.slot_map
        slot_number == parse_slot_number_table[message]
        keys == {i \in 1..Len(slot_map) : slot_number = Some(ToString(i))}
        time_str == parse_time_from_message_table[message]
        ends == IF time_str = None THEN {}
                ELSE {i \in 1..Len(slot_map) : endswith(slot_map[i], time_str[1])}
        selected_slot ==
            IF keys # {} THEN Some(slot_map[CHOOSE i \in keys : TRUE])
            ELSE IF ends # {} THEN Some(slot_map[CHOOSE i \in ends : \A j \in ends : i <= j])
            ELSE None
        cut == last_blank(selected_slot[1])
        staff_name == SubSeq(selected_slot[1], 1, cut - 1)
        slot_time == SubSeq(selected_slot[1], cut + 1, Len(selected_slot[1]))
    IN  IF date_change(new_date, state)
        THEN handle_service_selection(
                [state EXCEPT !.requested_date = new_date], intent,
                (IF state.service_type = None THEN "None" ELSE state.service_type[1])
                    \o " " \o message,
                fails, order)
        ELSE IF slot_map = <<>>
        THEN Outcome(state, Reply(200, FALSE, "please_start_over"))
        ELSE IF selected_slot = None
        THEN Outcome(state, Reply(200, FALSE, "choose_valid_option"))
        ELSE IF slot_time \notin SeqRange(slots_get(state.available_slots, staff_name))
        THEN Outcome(state, Reply(200, FALSE, "no_longer_available"))
        ELSE Outcome([state EXCEPT !.selected_slot = selected_slot,
                                   !.stage = "booking_link"],
                     Reply(200, FALSE, "reserved"))

\* (mutant) a new booking started on the record of the one before
handle_booking_confirmation_no_reset(state, intent, message) ==
    IF intent = "thanks"
    THEN Outcome([state EXCEPT !.stage = "end"], Reply(200, FALSE, "thanks"))
    ELSE IF intent \in {"service_request", "greeting"}
    THEN handle_greeting_stage(state, intent, message)
    ELSE Outcome(state, Reply(200, FALSE, "booking_link_ready"))

\* _handle_booking_confirmation
handle_booking_confirmation(state, intent, message) ==
    IF intent = "thanks"
    THEN Outcome([state EXCEPT !.stage = "end"], Reply(200, FALSE, "thanks"))
    ELSE IF intent \in {"service_request", "greeting"}
    THEN handle_greeting_stage(reset_state(state), intent, message)
    ELSE Outcome(state, Reply(200, FALSE, "booking_link_ready"))

\* _handle_conversation_stage
handle_conversation_stage(state, intent, message, fails, order) ==
    CASE state.stage = "greeting" -> handle_greeting_stage(state, intent, message)
      [] state.stage = "choose_service" -> handle_service_selection(state, intent, message, fails, order)
      [] state.stage = "pick_slot" -> handle_slot_selection(state, intent, message, fails, order)
      [] state.stage = "booking_link" -> handle_booking_confirmation(state, intent, message)
      [] OTHER -> Outcome([state EXCEPT !.stage = "greeting"], Reply(200, FALSE, "greeting"))

\* (mutant) every global intent restarts the session
global_outcome_restart(state, intent) ==
    Outcome(reset_state(state), Reply(200, FALSE, intent))

\* state.update({...}) of cancel_restart, and the replies that change nothing
global_outcome(state, intent) ==
    IF intent = "cancel_restart"
    THEN Outcome(reset_state(state), Reply(200, FALSE, "cancel_restart"))
    ELSE Outcome(state, Reply(200, FALSE, intent))

\* ChatbotAPIView.post: one turn of user_id, from the request to the reply. fails tells
\* whether the storage fails while the slots are read, order in which order it yields
\* the staff (a read that fails yields none: NoRows).
ChatbotAPIView_post(user_id, raw, fails, order) ==
    LET message == strip_table[raw]
        state == IF user_id \in DOMAIN conversation_state
                 THEN [conversation_state[user_id] EXCEPT !.last_activity = now]
                 ELSE new_state(now)
        intent == detect_intent_table[message, DateOf(now)]
        outcome == IF intent \in {"cancel_restart", "help", "pricing", "working_hours"}
                   THEN global_outcome(state, intent)
                   ELSE handle_conversation_stage(state, intent, message, fails, order)
    IN  /\ IF user_id = ""
           THEN /\ bot' = Reply(400, TRUE, "user_id_required")
                /\ turn' = NoLocals
                /\ UNCHANGED conversation_state
           ELSE IF message = ""
           THEN /\ bot' = Reply(200, FALSE, "please_send_a_message")
                /\ turn' = NoLocals
                /\ UNCHANGED conversation_state
           ELSE /\ conversation_state' =
                    [u \in DOMAIN conversation_state \cup {user_id} |->
                        IF u = user_id THEN outcome.state ELSE conversation_state[u]]
                /\ bot' = outcome.reply
                /\ turn' = Locals(state.stage, intent)
        /\ UNCHANGED <<bookings, customers, now, resp, req, workers, call>>

\* (mutant) a session idle for exactly 24 hours is swept too
expired_users_from_24_hours ==
    {u \in DOMAIN conversation_state : conversation_state[u].last_activity <= now - 24 * 60}

\* the users cleanup_old_conversations selects: idle for more than 24 hours
expired_users ==
    {u \in DOMAIN conversation_state : conversation_state[u].last_activity < now - 24 * 60}

\* cleanup_old_conversations
cleanup_old_conversations ==
    /\ expired_users # {}
    /\ conversation_state' =
            [u \in DOMAIN conversation_state \ expired_users |-> conversation_state[u]]
    /\ UNCHANGED <<bookings, customers, now, resp, req, bot, turn, workers, call>>

-----------------------------------------------------------------------------
(* Chat turns served by several worker threads. conversation_state is a dict of the
   module, shared by the threads without a lock; a thread may lose the processor where
   it waits for the storage, in _get_available_slots. *)

\* a turn that has replied
Replied(outcome) ==
    [reads |-> FALSE, state |-> outcome.state, reply |-> outcome.reply,
     service_type |-> None, requested_date |-> None]

\* a turn that has reached the read of the slots, with the arguments of the read
Reading(state, service_type, requested_date) ==
    [reads |-> TRUE, state |-> state, reply |-> NoReply,
     service_type |-> Some(service_type), requested_date |-> Some(requested_date)]

\* _handle_service_selection up to the call of _get_available_slots: the service type
\* and the requested date are written to the session before the slots are read
service_selection_request(state, message) ==
    LET service_type == validate_service_type_table[message]
        named == IF state.service_type = None
                 THEN [state EXCEPT !.service_type = service_type]
                 ELSE state
        parsed == parse_user_date_table[message, DateOf(now)]
        requested_date == IF parsed = None THEN DateOf(now) ELSE parsed[1]
    IN  IF state.service_type = None /\ service_type = None
        THEN Replied(Outcome(state, Reply(200, FALSE, "choose_from_services")))
        ELSE IF ~is_business_day(requested_date)
        THEN Replied(Outcome(named, Reply(200, FALSE, "closed_on_sundays")))
        ELSE Reading([named EXCEPT !.requested_date = Some(requested_date)],
                     named.service_type[1], requested_date)

\* _handle_service_selection from the return of _get_available_slots: the offers, the
\* stage and the slot map are written to the session as it is by then
service_selection_reply(state, service_type, requested_date, fails, order) ==
    LET available_slots == get_available_slots(service_type, requested_date, fails, order)
    IN  IF available_slots = <<>>
        THEN Outcome(state, Reply(200, FALSE, "no_slots_available"))
        ELSE Outcome([state EXCEPT !.available_slots = available_slots,
                                   !.stage = "pick_slot",
                                   !.slot_map = make_slot_map(available_slots)],
                     Reply(200, FALSE, "available_slots"))

\* a turn from the request up to the read of the slots, or up to the reply when it
\* reads none
turn_request(state, intent, message) ==
    LET new_date == parse_user_date_table[message, DateOf(now)]
        changes == state.stage = "pick_slot" /\ date_change(new_date, state)
    IN  IF intent \in {"cancel_restart", "help", "pricing", "working_hours"}
        THEN Replied(global_outcome(state, intent))
        ELSE IF state.stage = "choose_service" \/ changes
        THEN service_selection_request(
                IF changes THEN [state EXCEPT !.requested_date = new_date] ELSE state,
                IF changes
                THEN (IF state.service_type = None THEN "None" ELSE state.service_type[1])
                        \o " " \o message
                ELSE message)
        ELSE Replied(handle_conversation_stage(state, intent, message, FALSE, NoRows))

\* the turn a worker has in flight
InFlight(pc, user_id, message, service_type, requested_date) ==
    [pc |-> pc, user_id |-> user_id, message |-> message,
     service_type |-> service_type, requested_date |-> requested_date]

\* ChatbotAPIView.post on a worker thread, from the request to the read of the slots
post_request(w, user_id, raw) ==
    LET message == strip_table[raw]
        state == IF user_id \in DOMAIN conversation_state
                 THEN [conversation_state[user_id] EXCEPT !.last_activity = now]
                 ELSE new_state(now)
        intent == detect_intent_table[message, DateOf(now)]
    IN  /\ workers[w] = Idle
        /\ message # ""
        /\ \E step \in {turn_request(state, intent, message)} :
            /\ conversation_state' =
                    [u \in DOMAIN conversation_state \cup {user_id} |->
                        IF u = user_id THEN step.state ELSE conversation_state[u]]
            /\ bot' = IF step.reads THEN bot ELSE step.reply
            /\ workers' = [workers EXCEPT ![w] =
                    InFlight(IF step.reads THEN "reading" ELSE "replied", user_id, message,
                             step.service_type, step.requested_date)]
        /\ turn' = Locals(state.stage, intent)
        /\ UNCHANGED <<bookings, customers, now, resp, req, call>>

\* ChatbotAPIView.post on a worker thread, from the return of the read to the reply.
\* The handler writes to the record it was given: when the sweep has deleted the key
\* meanwhile, the record is no longer in the store and the writes are lost.
post_reply(w, fails, order) ==
    LET user_id == workers[w].user_id
        state == IF user_id \in DOMAIN conversation_state
                 THEN conversation_state[user_id]
                 ELSE new_state(now)
        outcome == service_selection_reply(state,
                        workers[w].service_type[1], workers[w].requested_date[1],
                        fails, order)
    IN  /\ workers[w].pc = "reading"
        /\ conversation_state' =
                [u \in DOMAIN conversation_state |->
                    IF u = user_id THEN outcome.state ELSE conversation_state[u]]
        /\ bot' = outcome.reply
        /\ workers' = [workers EXCEPT ![w].pc = "replied"]
        /\ UNCHANGED <<bookings, customers, now, resp, req, turn, call>>

\* cleanup_old_conversations on a worker thread, the scan: the list expired_users
cleanup_scan(w) ==
    /\ workers[w] = Idle
    /\ workers' = [workers EXCEPT ![w] = [pc |-> "scanned", expired_users |-> expired_users]]
    /\ UNCHANGED <<bookings, customers, now, resp, req, conversation_state, bot, turn, call>>

\* cleanup_old_conversations on a worker thread, the loop of the deletions
cleanup_delete(w) ==
    /\ workers[w].pc = "scanned"
    /\ conversation_state' =
            [u \in DOMAIN conversation_state \ workers[w].expired_users |->
                conversation_state[u]]
    /\ workers' = [workers EXCEPT ![w].pc = "swept"]
    /\ UNCHANGED <<bookings, customers, now, resp, req, bot, turn, call>>

-----------------------------------------------------------------------------
(* The clock *)

Tick ==
    /\ now + ClockStep \in Instants
    /\ now' = now + ClockStep
    /\ UNCHANGED <<bookings, customers, resp, req>>
    /\ UNCHANGED chatVars

-----------------------------------------------------------------------------
(* Initial state: the tables as seeded by datadump.py, the server started at
   some instant *)

\* a row loaded 24 hours before the first instant
SeedRow(status) ==
    [ staff |-> 1, booking_date |-> 1, booking_time |-> 9 * 60,
      service_type |-> "haircut", status |-> status,
      created_at |-> StartNow - MinutesPerDay ]

SeedBookings == { <<>>, <<SeedRow("pending")>>, <<SeedRow("completed")>> }

Init ==
    /\ bookings \in SeedBookings
    /\ customers = [e \in Emails |-> NoCustomer]
    /\ now \in Instants
    /\ resp = [c \in Clients |-> NoResponse]
    /\ req = [c \in Clients |-> Idle]
    /\ conversation_state = [u \in {} |-> new_state(now)]
    /\ bot = NoReply
    /\ turn = NoLocals
    /\ workers = [w \in Workers |-> Idle]
    /\ call = NoCall

\* a haircut booked, 24 hours before the first instant, for the first Monday
ChatSeedBookings ==
    { <<>>, <<[SeedRow("pending") EXCEPT !.booking_date = 2, !.booking_time = 9 * 60 + 45]>> }

\* the initial state of the conversations: as Init, the haircut booked being one that
\* the bot can meet
InitChat ==
    /\ bookings \in ChatSeedBookings
    /\ customers = [e \in Emails |-> NoCustomer]
    /\ now \in Instants
    /\ resp = [c \in Clients |-> NoResponse]
    /\ req = [c \in Clients |-> Idle]
    /\ conversation_state = [u \in {} |-> new_state(now)]
    /\ bot = NoReply
    /\ turn = NoLocals
    /\ workers = [w \in Workers |-> Idle]
    /\ call = NoCall

\* the initial state of a booking made in four turns
InitScenario ==
    /\ bookings \in ChatSeedBookings
    /\ customers = [e \in Emails |-> NoCustomer]
    /\ now \in ScenarioInstants
    /\ resp = [c \in Clients |-> NoResponse]
    /\ req = [c \in Clients |-> Idle]
    /\ conversation_state = [u \in {} |-> new_state(now)]
    /\ bot = NoReply
    /\ turn = NoLocals
    /\ workers = [w \in Workers |-> Idle]
    /\ call = NoCall

\* the messages two workers serve at the same time
ThreadMessages == {"hi", "haircut", "haircut tomorrow", "spa today", "monday", "1", "thanks"}

\* the initial state of two turns of one user served at the same time: the user has
\* been greeted, the workers are idle
InitThreads ==
    /\ bookings \in ChatSeedBookings
    /\ customers = [e \in Emails |-> NoCustomer]
    /\ now \in Instants
    /\ resp = [c \in Clients |-> NoResponse]
    /\ req = [c \in Clients |-> Idle]
    /\ conversation_state =
            [u \in Users |-> [new_state(now) EXCEPT !.stage = "choose_service"]]
    /\ bot = Reply(200, FALSE, "greeting")
    /\ turn = Locals("greeting", "greeting")
    /\ workers = [w \in Workers |-> Idle]
    /\ call = NoCall

\* the users whose sessions the sweep meets
SweepUsers == {"u1", "u2"}

\* how long before the first run of the sweep a session was last active: a minute
\* more than 24 hours, 24 hours, a minute less, and not at all
SweepAges == {24 * 60 + 1, 24 * 60, 24 * 60 - 1, 0}

\* the initial state of the sweep of the sessions: every user has a session, greeted
\* or not, that has been idle for some time
InitSweep ==
    /\ bookings = <<>>
    /\ customers = [e \in Emails |-> NoCustomer]
    /\ now \in Instants
    /\ resp = [c \in Clients |-> NoResponse]
    /\ req = [c \in Clients |-> Idle]
    /\ conversation_state \in
            [SweepUsers -> {[new_state(now - age) EXCEPT !.stage = stage] :
                                age \in SweepAges, stage \in {"greeting", "choose_service"}}]
    /\ bot = NoReply
    /\ turn = NoLocals
    /\ workers = [w \in Workers |-> Idle]
    /\ call = NoCall

\* the days on which the dates of the messages are resolved: two weeks
ReferenceDays == 0..13

\* the messages whose date is resolved: the relative days, the names of the weekdays
\* and days of the month
DateMessages ==
    {"today", "tomorrow", "day after tomorrow", "the Day After Tomorrow please",
     "monday", "tuesday", "wednesday", "thursday", "friday", "saturday", "sunday",
     "haircut on Friday", "this month 3", "3"}

\* the initial state of the resolution of dates: the clock at 09:00 of some day
InitDates ==
    /\ bookings = <<>>
    /\ customers = [e \in Emails |-> NoCustomer]
    /\ now \in {d * MinutesPerDay + StartNow : d \in ReferenceDays}
    /\ resp = [c \in Clients |-> NoResponse]
    /\ req = [c \in Clients |-> Idle]
    /\ conversation_state = [u \in {} |-> new_state(now)]
    /\ bot = NoReply
    /\ turn = NoLocals
    /\ workers = [w \in Workers |-> Idle]
    /\ call = NoCall

\* the windows, durations and buffers the loop of the possible slots is run on
WindowStarts == {9 * 60, 9 * 60 + 45, 10 * 60}
WindowEnds == {9 * 60, 9 * 60 + 30, 10 * 60, 10 * 60 + 30, 11 * 60}
Durations == {15, 30, 45, 60}
Buffers == {0, 15}

\* the services the engine is called for: haircuts of any duration a row may hold, the
\* unset and the negative ones included
EngineServices ==
    { [service_type |-> "haircut", id |-> 1, duration_minutes |-> d, staff |-> {1, 2}] :
        d \in {-30, 0} \cup Durations }

\* the initial state of the calls of the engine
InitEngine ==
    /\ bookings \in ChatSeedBookings
    /\ customers = [e \in Emails |-> NoCustomer]
    /\ now \in Instants
    /\ resp = [c \in Clients |-> NoResponse]
    /\ req = [c \in Clients |-> Idle]
    /\ conversation_state = [u \in {} |-> new_state(now)]
    /\ bot = NoReply
    /\ turn = NoLocals
    /\ workers = [w \in Workers |-> Idle]
    /\ call = NoCall

\* every keyword of INTENTS
Keywords == UNION {SeqRange(INTENTS[k][2]) : k \in 1..Len(INTENTS)}

\* the messages that are classified: every keyword on its own, and messages that hold
\* keywords of several intents, of one in capitals, or of none
IntentMessages ==
    Keywords \cup {"Thank You", "HELP", "cancel my haircut", "price of a haircut today",
                   "is the spa open on friday", "help me reset", "what", "1", "09:45"}

\* the initial state of the classification of messages
InitIntents ==
    /\ bookings = <<>>
    /\ customers = [e \in Emails |-> NoCustomer]
    /\ now \in Instants
    /\ resp = [c \in Clients |-> NoResponse]
    /\ req = [c \in Clients |-> Idle]
    /\ conversation_state = [u \in {} |-> new_state(now)]
    /\ bot = NoReply
    /\ turn = NoLocals
    /\ workers = [w \in Workers |-> Idle]
    /\ call = NoCall

\* the initial state of the sweep run while turns are served: the user has a session,
\* greeted or not, that has been idle for some time; the workers are idle
InitSweepRace ==
    /\ bookings \in ChatSeedBookings
    /\ customers = [e \in Emails |-> NoCustomer]
    /\ now \in Instants
    /\ resp = [c \in Clients |-> NoResponse]
    /\ req = [c \in Clients |-> Idle]
    /\ conversation_state \in
            [Users -> {[new_state(now - age) EXCEPT !.stage = stage] :
                            age \in SweepAges, stage \in {"greeting", "choose_service"}}]
    /\ bot = NoReply
    /\ turn = NoLocals
    /\ workers = [w \in Workers |-> Idle]
    /\ call = NoCall

-----------------------------------------------------------------------------
(* Specifications *)

\* One client; every request runs from start to end before the next; the clock advances.
Next ==
    \/ \E data \in CommitInputs : BookServiceAPIView_post(1, data)
    \/ \E id \in 1..MaxBookings + 1, action \in {"cancel", "reschedule"} :
            BookingStatusAPIView_patch(1, id, action)
    \/ cleanup_expired_bookings
    \/ Tick

Spec == Init /\ [][Next]_vars

\* One client booking, cancelling, and the expiry sweep, all at one instant.
NextSlots ==
    \/ \E data \in SlotInputs : BookServiceAPIView_post(1, data)
    \/ \E id \in 1..MaxBookings : BookingStatusAPIView_patch(1, id, "cancel")
    \/ cleanup_expired_bookings

SpecSlots == Init /\ [][NextSlots]_vars

\* Two clients whose commit requests interleave between the conflict check and the create.
NextRace ==
    \/ \E c \in Clients, data \in RaceInputs : CommitCheck(c, data)
    \/ \E c \in Clients : CommitCreate(c)

SpecRace == Init /\ [][NextRace]_vars

\* One user talking to the bot while the clock advances and idle sessions are swept.
NextChat ==
    \/ \E user_id \in Users, raw \in ChatMessages, read \in Reads :
            ChatbotAPIView_post(user_id, raw, read[1], read[2])
    \/ ChatbotAPIView_post("", "hi", FALSE, NoRows)
    \/ cleanup_old_conversations
    \/ Tick

SpecChat == InitChat /\ [][NextChat]_vars

\* One user going through the stages of a booking while the clock advances.
NextDialog ==
    \/ \E user_id \in Users, raw \in DialogMessages, read \in Reads :
            ChatbotAPIView_post(user_id, raw, read[1], read[2])
    \/ Tick

SpecDialog == InitChat /\ [][NextDialog]_vars

\* One user sending the messages of a four-turn booking, in any order, at one instant.
NextScenario ==
    \E user_id \in Users, k \in 1..Len(ScenarioMessages), read \in Reads :
        ChatbotAPIView_post(user_id, ScenarioMessages[k], read[1], read[2])

SpecScenario == InitScenario /\ [][NextScenario]_vars

\* Two workers each serving one turn of the same user, at one instant.
NextThreads ==
    \/ \E w \in Workers, user_id \in Users, raw \in ThreadMessages :
            post_request(w, user_id, raw)
    \/ \E w \in Workers, read \in Reads : post_reply(w, read[1], read[2])

SpecThreads == InitThreads /\ [][NextThreads]_vars

\* Two users greeting the bot, the sweep of the idle sessions, and the clock.
NextSweep ==
    \/ \E user_id \in SweepUsers : ChatbotAPIView_post(user_id, "hi", FALSE, NoRows)
    \/ cleanup_old_conversations
    \/ Tick

SpecSweep == InitSweep /\ [][NextSweep]_vars

\* The dates of messages resolved on some day.
NextDates == \E message \in DateMessages : parse_user_date_call(message)

SpecDates == InitDates /\ [][NextDates]_vars

\* The loop of the possible slots and the engine, called on their own.
NextEngine ==
    \/ \E start_dt \in WindowStarts, end_dt \in WindowEnds,
          duration \in Durations, buffer \in Buffers :
            possible_slots_call(start_dt, end_dt, duration, buffer)
    \/ \E service \in EngineServices, staff \in StaffIds, booking_date \in 0..(MaxDate + 1) :
            get_available_slots_for_staff_call(service, staff, booking_date)

SpecEngine == InitEngine /\ [][NextEngine]_vars

\* Messages classified on their own.
NextIntents == \E message \in IntentMessages : detect_intent_call(message)

SpecIntents == InitIntents /\ [][NextIntents]_vars

\* Two workers, each serving one turn of the user or running the sweep once, at one
\* instant.
NextSweepRace ==
    \/ \E w \in Workers, user_id \in Users, raw \in ThreadMessages :
            post_request(w, user_id, raw)
    \/ \E w \in Workers, read \in Reads : post_reply(w, read[1], read[2])
    \/ \E w \in Workers : cleanup_scan(w)
    \/ \E w \in Workers : cleanup_delete(w)

SpecSweepRace == InitSweepRace /\ [][NextSweepRace]_vars

-----------------------------------------------------------------------------
(* Properties of the booking store and of the slot engine *)

\* the dates about which the slot engine is asked
QueryDates == 0..MaxDate + 1

Active(b) == b.status \in {"pending", "confirmed"}

SameSlot(a, b) ==
    /\ a.staff = b.staff
    /\ a.booking_date = b.booking_date
    /\ a.booking_time = b.booking_time

\* rows other than i that hold the slot of row i with status pending or confirmed
Holders(rows, i) == {j \in 1..Len(rows) : j # i /\ Active(rows[j]) /\ SameSlot(rows[j], rows[i])}

\* the slot starts of a window as the specification words them: window start plus a
\* multiple of duration + buffer, ending no later than the window end
WindowSlots(service, staff, booking_date) ==
    LET av == availability_of(staff, weekday(booking_date))
        step == service.duration_minutes + buffer_time
    IN  IF av = {} THEN {}
        ELSE LET a == CHOOSE x \in av : TRUE
             IN  {a.start_time + k * step : k \in
                    {n \in 0..((a.end_time - a.start_time) \div step) :
                        a.start_time + n * step + service.duration_minutes <= a.end_time}}

open_list(service, staff, booking_date) ==
    get_available_slots_for_staff(service, staff, booking_date)[1]

taken_list(service, staff, booking_date) ==
    get_available_slots_for_staff(service, staff, booking_date)[2]

\* a row of the given statuses holds (staff, date, time)
Held(staff, booking_date, t, statuses) ==
    \E i \in 1..Len(bookings) :
        /\ bookings[i].staff = staff
        /\ bookings[i].booking_date = booking_date
        /\ bookings[i].booking_time = t
        /\ bookings[i].status \in statuses

NotPast(booking_date, t) == booking_date = DateOf(now) => t > TimeOf(now)

\* C1: for every (staff, date, time) at most one booking with status pending or
\* confirmed exists.
C1_NoDoubleBooking ==
    \A i, j \in 1..Len(bookings) :
        (i # j /\ Active(bookings[i]) /\ Active(bookings[j]))
            => ~SameSlot(bookings[i], bookings[j])

\* C2: when two commit requests for the same (staff, date, time) both passed their
\* conflict check before either created its booking, exactly one of them succeeds.
C2_ExactlyOneSucceeds ==
    \A c, k \in Clients :
        ( /\ c # k
          /\ req[c].pc = "done" /\ req[k].pc = "done"
          /\ ~req[c].existing /\ ~req[k].existing
          /\ SameSlot([staff |-> req[c].data.staff_id,
                       booking_date |-> req[c].data.booking_date,
                       booking_time |-> req[c].data.booking_time],
                      [staff |-> req[k].data.staff_id,
                       booking_date |-> req[k].data.booking_date,
                       booking_time |-> req[k].data.booking_time]) )
        => (resp[c].success # resp[k].success)

\* C3: a commit for a (staff, date, time) that a pending or confirmed booking holds
\* fails and creates no booking.
C3_ConflictRejected ==
    [][ \A data \in CommitInputs :
            ( /\ BookServiceAPIView_post(1, data)
              /\ form_status(data) = 0
              /\ lookup_status(data) = 0
              /\ existing_booking(data) # {} )
            => (bookings' = bookings /\ ~resp'[1].success) ]_vars

\* C4: a commit succeeds only if the date is not before today, the weekday is not a
\* closed day, and the time is an open slot of the staff member at that moment.
C4_CommitRevalidates ==
    [][ \A data \in CommitInputs :
            (BookServiceAPIView_post(1, data) /\ resp'[1].success)
            => /\ data.booking_date >= DateOf(now)
               /\ weekday(data.booking_date) \notin closed_days
               /\ \E s \in service_for(data) :
                    strftime_HM(data.booking_time) \in
                        SeqRange(open_list(s, data.staff_id, data.booking_date)) ]_vars

\* C5 as claimed: a time is in the open list iff it is a slot start of the window, is
\* not past when the date is today, and no booking other than a cancelled or expired
\* one holds it.
C5_OpenIffNoLiveBooking ==
    \A service \in Services, staff \in StaffIds, d \in QueryDates :
        SeqRange(open_list(service, staff, d)) =
            { strftime_HM(t) : t \in
                {u \in WindowSlots(service, staff, d) :
                    /\ NotPast(d, u)
                    /\ ~Held(staff, d, u, {"pending", "confirmed", "completed"})} }

\* C5 as amended: a time is in the open list iff it is a slot start of the window, is
\* not past when the date is today, and no pending or confirmed booking holds it.
C5_OpenIffNotOccupied ==
    \A service \in Services, staff \in StaffIds, d \in QueryDates :
        SeqRange(open_list(service, staff, d)) =
            { strftime_HM(t) : t \in
                {u \in WindowSlots(service, staff, d) :
                    /\ NotPast(d, u)
                    /\ ~Held(staff, d, u, {"pending", "confirmed"})} }

\* a slot start of today at or before the current time, a slot start of a later day at
\* or before the current time of day, and a pending or confirmed booking in the table
C5_Witness ==
    /\ \E service \in Services, staff \in StaffIds :
        /\ \E u \in WindowSlots(service, staff, DateOf(now)) : u <= TimeOf(now)
        /\ \E u \in WindowSlots(service, staff, DateOf(now)) :
                /\ u > TimeOf(now)
                /\ Held(staff, DateOf(now), u, {"confirmed"})
        /\ open_list(service, staff, DateOf(now) + 1) # <<>>
    /\ \E i \in 1..Len(bookings) : bookings[i].status = "cancelled"

\* C6: when the date is today no slot at or before the current time of day is open;
\* when the date is a later day every slot start no pending or confirmed booking
\* holds is open, whatever the current time of day.
C6_PastSlotExclusion ==
    \A service \in Services, staff \in StaffIds, d \in QueryDates :
        /\ d = DateOf(now) =>
            \A u \in WindowSlots(service, staff, d) :
                u <= TimeOf(now) => strftime_HM(u) \notin SeqRange(open_list(service, staff, d))
        /\ d > DateOf(now) =>
            \A u \in WindowSlots(service, staff, d) :
                ~Held(staff, d, u, {"pending", "confirmed"})
                    => strftime_HM(u) \in SeqRange(open_list(service, staff, d))

\* today has a free slot start at the current time, and tomorrow one at or before the
\* current time of day
C6_Witness ==
    \E service \in Services, staff \in StaffIds :
        /\ \E u \in WindowSlots(service, staff, DateOf(now)) :
                /\ u = TimeOf(now)
                /\ ~Held(staff, DateOf(now), u, {"pending", "confirmed"})
        /\ \E u \in WindowSlots(service, staff, DateOf(now) + 1) :
                /\ u <= TimeOf(now)
                /\ ~Held(staff, DateOf(now) + 1, u, {"pending", "confirmed"})
        /\ \E i \in 1..Len(bookings) :
                bookings[i].status = "confirmed" /\ bookings[i].booking_date >= DateOf(now)

\* C7: the open and taken lists are disjoint, every taken time is a slot start of the
\* window held by a pending or confirmed booking, and every slot start not dropped as
\* past is in exactly one of the two lists.
C7_Partition ==
    \A service \in Services, staff \in StaffIds, d \in QueryDates :
        LET open == SeqRange(open_list(service, staff, d))
            taken == SeqRange(taken_list(service, staff, d))
        IN  /\ open \cap taken = {}
            /\ \A x \in taken :
                \E u \in WindowSlots(service, staff, d) :
                    x = strftime_HM(u) /\ Held(staff, d, u, {"pending", "confirmed"})
            /\ \A u \in WindowSlots(service, staff, d) :
                NotPast(d, u) => (strftime_HM(u) \in open) # (strftime_HM(u) \in taken)

\* C8: when a booking is cancelled or expired, its time is reported open afterwards,
\* provided it is a slot start that is not past and no other pending or confirmed
\* booking holds it, and a well-formed commit for it is not refused.
C8_CancelFreesSlot ==
    [][ \A i \in 1..Len(bookings) :
            ( /\ Active(bookings[i])
              /\ Len(bookings') = Len(bookings)
              /\ bookings'[i].status \in {"cancelled", "expired"}
              /\ Holders(bookings', i) = {} )
            => \A service \in Services :
                LET b == bookings[i]
                IN  ( /\ b.staff \in service.staff
                      /\ b.booking_time \in WindowSlots(service, b.staff, b.booking_date)
                      /\ NotPast(b.booking_date, b.booking_time) )
                    => /\ strftime_HM(b.booking_time) \in
                            SeqRange(open_list(service, b.staff, b.booking_date)')
                       /\ \A data \in SlotInputs :
                            ( /\ data.staff_id = b.staff
                              /\ data.booking_date = b.booking_date
                              /\ data.booking_time = b.booking_time )
                            => /\ existing_booking(data)' = {}
                               /\ ~conflict_blocks(existing_booking(data)' # {}) ]_vars

\* a cancelled booking and an expired booking whose times are open again
C8_Witness ==
    \E i, j \in 1..Len(bookings) :
        /\ bookings[i].status = "cancelled"
        /\ bookings[j].status = "expired"
        /\ \A k \in {i, j} :
            \E service \in Services :
                strftime_HM(bookings[k].booking_time) \in
                    SeqRange(open_list(service, bookings[k].staff, bookings[k].booking_date))

-----------------------------------------------------------------------------
(* Properties of the conversation *)

\* the fields of a session record other than last_activity
SessionFields(state) ==
    << state.stage, state.service_type, state.requested_date, state.selected_slot,
       state.available_slots, state.slot_map >>

\* the session a turn of user_id starts from
SessionBefore(user_id) ==
    IF user_id \in DOMAIN conversation_state
    THEN conversation_state[user_id]
    ELSE new_state(now)

\* C9: from every stage, a turn whose message is classified cancel_restart sets the
\* stage to greeting and clears the service type, the requested date, the selected
\* slot, the availability snapshot and the offer map.  (The turn records the intent it
\* read, so the first conjunct only names the steps to look at.)
C9_CancelRestartResets ==
    [][ turn'.intent = "cancel_restart" =>
        \A user_id \in Users, raw \in ChatMessages, read \in Reads :
            ( /\ strip_table[raw] # ""
              /\ detect_intent_table[strip_table[raw], DateOf(now)] = "cancel_restart"
              /\ ChatbotAPIView_post(user_id, raw, read[1], read[2]) )
            => /\ user_id \in DOMAIN conversation_state'
               /\ SessionFields(conversation_state'[user_id]) =
                    <<"greeting", None, None, None, <<>>, <<>> >> ]_vars

\* a cancel_restart turn has run on a session that had reached the booking link, with
\* service, date, slot, snapshot and offers set, and has left a cleared session
C9_Witness ==
    /\ turn = Locals("booking_link", "cancel_restart")
    /\ bot = Reply(200, FALSE, "cancel_restart")
    /\ \E user_id \in DOMAIN conversation_state :
            /\ conversation_state[user_id].last_activity = now
            /\ SessionFields(conversation_state[user_id]) =
                    <<"greeting", None, None, None, <<>>, <<>> >>

\* C10: from every stage, a turn whose message is classified help, pricing or
\* working_hours leaves the stage, the service type, the requested date, the selected
\* slot, the availability snapshot and the offer map of the session as they were.
C10_InformationalTurnsKeepSession ==
    [][ turn'.intent \in {"help", "pricing", "working_hours"} =>
        \A user_id \in Users, raw \in ChatMessages, read \in Reads :
            ( /\ strip_table[raw] # ""
              /\ detect_intent_table[strip_table[raw], DateOf(now)] = turn'.intent
              /\ ChatbotAPIView_post(user_id, raw, read[1], read[2]) )
            => /\ user_id \in DOMAIN conversation_state'
               /\ SessionFields(conversation_state'[user_id]) =
                    SessionFields(SessionBefore(user_id)) ]_vars

\* a help, pricing or working_hours turn has run on a session that was picking a slot,
\* and the session still holds its date, snapshot and offers
C10_Witness ==
    /\ turn.stage = "pick_slot"
    /\ turn.intent \in {"help", "pricing", "working_hours"}
    /\ bot = Reply(200, FALSE, turn.intent)
    /\ \E user_id \in DOMAIN conversation_state :
            /\ conversation_state[user_id].last_activity = now
            /\ conversation_state[user_id].stage = "pick_slot"
            /\ conversation_state[user_id].requested_date # None
            /\ conversation_state[user_id].available_slots # <<>>
            /\ conversation_state[user_id].slot_map # <<>>

\* the intents that post answers itself, before the stage is looked at
GlobalIntents == {"cancel_restart", "help", "pricing", "working_hours"}

\* raw is a message that post classifies as the turn of the step was classified
Classified(raw) ==
    /\ strip_table[raw] # ""
    /\ detect_intent_table[strip_table[raw], DateOf(now)] = turn'.intent

\* the step is the turn of ChatbotAPIView.post on the message raw of user_id under the
\* read of the storage
TurnOf(user_id, raw, read) == ChatbotAPIView_post(user_id, raw, read[1], read[2])

\* C11: a turn in stage greeting whose message is classified greeting or
\* service_request leaves the session in choose_service, its service type being the
\* one extracted from the message, or none when none is extracted; a turn in stage
\* greeting of any other intent that post does not answer itself leaves the stage at
\* greeting and the session fields as they were.
C11_GreetingStage ==
    [][ (turn'.stage = "greeting" /\ turn'.intent \notin GlobalIntents) =>
        \A user_id \in Users, raw \in DialogMessages : Classified(raw) =>
            \A read \in Reads : TurnOf(user_id, raw, read) =>
                LET before == SessionBefore(user_id)
                    after == conversation_state'[user_id]
                IN  IF turn'.intent \in {"greeting", "service_request"}
                    THEN /\ after.stage = "choose_service"
                         /\ after.service_type = validate_service_type_table[strip_table[raw]]
                    ELSE /\ after.stage = "greeting"
                         /\ SessionFields(after) = SessionFields(before) ]_vars

\* the date _handle_service_selection resolves a message to: the date that
\* parse_user_date reads in it, today when it reads none
ResolvedDate(message) ==
    LET parsed == parse_user_date_table[message, DateOf(now)]
    IN  IF parsed = None THEN DateOf(now) ELSE parsed[1]

\* C12: a turn in stage choose_service on a session whose service type is set, with a
\* message whose resolved date is a Sunday, replies that the salon is closed (no list
\* of slots), leaves the stage at choose_service and keeps the service type.
C12_ClosedDayRejected ==
    [][ (turn'.stage = "choose_service" /\ turn'.intent \notin GlobalIntents) =>
        \A user_id \in Users, raw \in DialogMessages :
            ( /\ Classified(raw)
              /\ SessionBefore(user_id).service_type # None
              /\ weekday(ResolvedDate(strip_table[raw])) = 6 )
            => \A read \in Reads : TurnOf(user_id, raw, read) =>
               LET before == SessionBefore(user_id)
                   after == conversation_state'[user_id]
               IN  /\ bot' = Reply(200, FALSE, "closed_on_sundays")
                   /\ after.stage = "choose_service"
                   /\ after.service_type = before.service_type
                   /\ after.available_slots = before.available_slots
                   /\ after.slot_map = before.slot_map ]_vars

\* a turn in stage choose_service has answered that the salon is closed, and the
\* session is still in choose_service with its service type
C12_Witness ==
    /\ turn.stage = "choose_service"
    /\ bot = Reply(200, FALSE, "closed_on_sundays")
    /\ \E user_id \in DOMAIN conversation_state :
            /\ conversation_state[user_id].last_activity = now
            /\ conversation_state[user_id].stage = "choose_service"
            /\ conversation_state[user_id].service_type = Some("haircut")

\* the service type _handle_service_selection works with: the one of the session, or
\* the one it extracts from the message when the session has none
ServiceOfTurn(before, message) ==
    IF before.service_type # None THEN before.service_type
    ELSE validate_service_type_table[message]

\* the open (staff, time) pairs of a service type on a date, as the slot engine lists
\* them for each member of the staff of a service of that type
OpenPairs(service_type, date) ==
    UNION { {<<p[2], x>> : x \in SeqRange(get_available_slots_for_staff(p[1], p[2], date)[1])} :
                p \in {q \in Services \X StaffIds :
                          q[1].service_type = service_type /\ q[2] \in q[1].staff} }

\* C13: a turn in stage choose_service whose message resolves to a business day on
\* which no member of the staff of the service has an open slot (no availability
\* window for that weekday included) replies that nothing is available, and the stage
\* remains choose_service.
C13_NoAvailabilityKeepsStage ==
    [][ (turn'.stage = "choose_service" /\ turn'.intent \notin GlobalIntents) =>
        \A user_id \in Users, raw \in DialogMessages :
            ( /\ Classified(raw)
              /\ ServiceOfTurn(SessionBefore(user_id), strip_table[raw]) # None
              /\ weekday(ResolvedDate(strip_table[raw])) # 6
              /\ OpenPairs(ServiceOfTurn(SessionBefore(user_id), strip_table[raw])[1],
                           ResolvedDate(strip_table[raw])) = {} )
            => \A read \in Reads : TurnOf(user_id, raw, read) =>
                   /\ bot' = Reply(200, FALSE, "no_slots_available")
                   /\ conversation_state'[user_id].stage = "choose_service" ]_vars

\* a turn in stage choose_service has asked for a haircut on the first Tuesday, a day
\* for which no member of the staff has an availability window, and was told that
\* nothing is available; the session is still in choose_service
C13_Witness ==
    /\ turn.stage = "choose_service"
    /\ bot = Reply(200, FALSE, "no_slots_available")
    /\ \E user_id \in DOMAIN conversation_state :
            /\ conversation_state[user_id].last_activity = now
            /\ conversation_state[user_id].stage = "choose_service"
            /\ conversation_state[user_id].service_type = Some("haircut")
            /\ conversation_state[user_id].requested_date = Some(3)
            /\ \A staff \in StaffIds : availability_of(staff, weekday(3)) = {}

RECURSIVE OffersInIdOrder(_, _)
\* the offers of a set of open (staff, time) pairs: the staff in ascending order of
\* their ids, the times of each in ascending order, each offer "{staff name} {time}"
OffersInIdOrder(pairs, ids) ==
    IF ids = {} THEN <<>>
    ELSE LET least == CHOOSE x \in ids : \A y \in ids : x <= y
             times == sorted_times({p[2] : p \in {q \in pairs : q[1] = least}})
         IN  [i \in 1..Len(times) |-> staff_name_of(least) \o " " \o times[i]]
                \o OffersInIdOrder(pairs, ids \ {least})

\* C14: a turn in stage choose_service whose message resolves to a business day with
\* at least one open slot, the storage being read without failure, moves the session
\* to pick_slot with an offer map that lists every open (staff, time) pair of the
\* staff of the service once, numbered from 1 without gaps, the staff in ascending
\* order of id and the times of each member ascending.
C14_OfferMapInIdOrder ==
    [][ (turn'.stage = "choose_service" /\ turn'.intent \notin GlobalIntents) =>
        \A user_id \in Users, raw \in DialogMessages :
            ( /\ Classified(raw)
              /\ ServiceOfTurn(SessionBefore(user_id), strip_table[raw]) # None
              /\ weekday(ResolvedDate(strip_table[raw])) # 6
              /\ OpenPairs(ServiceOfTurn(SessionBefore(user_id), strip_table[raw])[1],
                           ResolvedDate(strip_table[raw])) # {} )
            => \A read \in Reads : (~read[1] /\ TurnOf(user_id, raw, read)) =>
                   /\ conversation_state'[user_id].stage = "pick_slot"
                   /\ conversation_state'[user_id].slot_map =
                        OffersInIdOrder(
                            OpenPairs(ServiceOfTurn(SessionBefore(user_id), strip_table[raw])[1],
                                      ResolvedDate(strip_table[raw])),
                            StaffIds) ]_vars

\* the offers of a set of open (staff, time) pairs, in whatever order
OfferTexts(pairs) == {staff_name_of(p[1]) \o " " \o p[2] : p \in pairs}

\* C15: a turn in stage pick_slot whose message resolves to a date other than the
\* requested date of the session is a change of date: when the new date is a business
\* day with open slots (the storage being read without failure), the session stays in
\* pick_slot, its requested date is the new date and its offer map lists the open
\* slots of the new date, each once.
C15_DateChangeRecomputes ==
    [][ (turn'.stage = "pick_slot" /\ turn'.intent \notin GlobalIntents) =>
        \A user_id \in Users, raw \in DialogMessages :
            ( /\ Classified(raw)
              /\ parse_user_date_table[strip_table[raw], DateOf(now)] # None
              /\ parse_user_date_table[strip_table[raw], DateOf(now)] #
                    SessionBefore(user_id).requested_date
              /\ weekday(ResolvedDate(strip_table[raw])) # 6
              /\ OpenPairs(SessionBefore(user_id).service_type[1],
                           ResolvedDate(strip_table[raw])) # {} )
            => \A read \in Reads : (~read[1] /\ TurnOf(user_id, raw, read)) =>
                   LET after == conversation_state'[user_id]
                       pairs == OpenPairs(SessionBefore(user_id).service_type[1],
                                          ResolvedDate(strip_table[raw]))
                   IN  /\ after.stage = "pick_slot"
                       /\ after.requested_date = Some(ResolvedDate(strip_table[raw]))
                       /\ SeqRange(after.slot_map) = OfferTexts(pairs)
                       /\ Len(after.slot_map) = Cardinality(pairs) ]_vars

\* a turn in stage pick_slot has been answered with the list of the slots of a date
\* (which only a change of date does), and the session is in pick_slot with the offers
\* of its new requested date, the first Monday, asked for on the Saturday
C15_Witness ==
    /\ turn.stage = "pick_slot"
    /\ bot = Reply(200, FALSE, "available_slots")
    /\ DateOf(now) = 0
    /\ \E user_id \in DOMAIN conversation_state :
            /\ conversation_state[user_id].last_activity = now
            /\ conversation_state[user_id].stage = "pick_slot"
            /\ conversation_state[user_id].requested_date = Some(2)
            /\ SeqRange(conversation_state[user_id].slot_map) =
                    OfferTexts(OpenPairs(conversation_state[user_id].service_type[1], 2))

\* the (staff name, time) pairs of an availability snapshot
SnapshotPairs(available_slots) ==
    UNION { {<<available_slots[i][1], x>> : x \in SeqRange(available_slots[i][2])} :
                i \in 1..Len(available_slots) }

\* the offer map and the snapshot of a session are those of a date: the date is a
\* business day, the offers are its open slots and so are the pairs of the snapshot
ComputedFor(state, date) ==
    LET pairs == OpenPairs(state.service_type[1], date)
    IN  /\ weekday(date) # 6
        /\ SeqRange(state.slot_map) = OfferTexts(pairs)
        /\ SnapshotPairs(state.available_slots) =
                {<<staff_name_of(p[1]), p[2]>> : p \in pairs}

\* C16: a turn in stage pick_slot whose message changes the requested date of the
\* session leaves no offer of the old date behind: after the turn the session has no
\* offers at all, or its offer map and its snapshot are those of its new requested
\* date.
C16_OffersFollowDate ==
    [][ (turn'.stage = "pick_slot" /\ turn'.intent \notin GlobalIntents) =>
        \A user_id \in Users, raw \in DialogMessages :
            ( /\ Classified(raw)
              /\ date_change(parse_user_date_table[strip_table[raw], DateOf(now)],
                             SessionBefore(user_id)) )
            => \A read \in Reads : TurnOf(user_id, raw, read) =>
                   LET after == conversation_state'[user_id]
                   IN  after.requested_date # SessionBefore(user_id).requested_date =>
                            \/ after.slot_map = <<>> /\ after.available_slots = <<>>
                            \/ ComputedFor(after, after.requested_date[1]) ]_vars

\* a turn on message reads the slots from the storage: in choose_service when the
\* service type is known and the resolved date is a business day, in pick_slot when
\* the message changes the date to a business day
ReadsSlots(before, message) ==
    /\ weekday(ResolvedDate(message)) # 6
    /\ \/ before.stage = "choose_service" /\ ServiceOfTurn(before, message) # None
       \/ /\ before.stage = "pick_slot"
          /\ before.service_type # None
          /\ date_change(parse_user_date_table[message, DateOf(now)], before)

\* C17: a turn during which the read of the slots fails leaves the requested date,
\* the snapshot, the offer map and the stage of the session as they were before the
\* turn.
C17_FailedReadChangesNothing ==
    [][ (turn'.stage \in {"choose_service", "pick_slot"} /\ turn'.intent \notin GlobalIntents) =>
        \A user_id \in Users, raw \in DialogMessages :
            ( /\ Classified(raw)
              /\ ReadsSlots(SessionBefore(user_id), strip_table[raw]) )
            => \A read \in Reads : (read[1] /\ TurnOf(user_id, raw, read)) =>
                   LET before == SessionBefore(user_id)
                       after == conversation_state'[user_id]
                   IN  /\ after.requested_date = before.requested_date
                       /\ after.available_slots = before.available_slots
                       /\ after.slot_map = before.slot_map
                       /\ after.stage = before.stage ]_vars

\* the ordinal keys of an offer map that a message is equal to
ExactKeys(slot_map, message) == {i \in 1..Len(slot_map) : ToString(i) = message}

\* the offers whose text ends with the HH:MM time that a message holds
TimeKeys(slot_map, message) ==
    LET time_str == parse_time_from_message_table[message]
    IN  IF time_str = None THEN {}
        ELSE {i \in 1..Len(slot_map) : endswith(slot_map[i], time_str[1])}

\* the offers a message may resolve to: the one whose key it is equal to, otherwise
\* those that end with its time
Resolved(slot_map, message) ==
    IF ExactKeys(slot_map, message) # {}
    THEN {slot_map[i] : i \in ExactKeys(slot_map, message)}
    ELSE {slot_map[i] : i \in TimeKeys(slot_map, message)}

\* an offer is in the snapshot: its time is among the open times of its staff member
InSnapshot(available_slots, offer) ==
    \E p \in SnapshotPairs(available_slots) : offer = p[1] \o " " \o p[2]

\* C18: a turn in stage pick_slot whose message does not change the date resolves a
\* selection by the ordinal key the message is equal to, otherwise by the HH:MM time
\* in it against the end of the offers, and by nothing else; a resolved offer that is
\* in the snapshot becomes the selected slot and the stage becomes booking_link; with
\* no resolved offer, or one that is not in the snapshot, the session stays in
\* pick_slot with the selection it had.
C18_SelectionResolution ==
    [][ (turn'.stage = "pick_slot" /\ turn'.intent \notin GlobalIntents) =>
        \A user_id \in Users, raw \in DialogMessages :
            ( /\ Classified(raw)
              /\ ~date_change(parse_user_date_table[strip_table[raw], DateOf(now)],
                              SessionBefore(user_id))
              /\ SessionBefore(user_id).slot_map # <<>> )
            => \A read \in Reads : TurnOf(user_id, raw, read) =>
                   LET before == SessionBefore(user_id)
                       after == conversation_state'[user_id]
                       offers == Resolved(before.slot_map, strip_table[raw])
                   IN  IF \E offer \in offers : InSnapshot(before.available_slots, offer)
                       THEN /\ after.stage = "booking_link"
                            /\ \E offer \in offers : after.selected_slot = Some(offer)
                       ELSE /\ after.stage = "pick_slot"
                            /\ after.selected_slot = before.selected_slot ]_vars

\* C19: a turn in stage pick_slot on the message "last" (no ordinal key, no HH:MM
\* time in it), the session having offers, selects the offer with the highest
\* ordinal key of the offer map.
C19_LastSelectsHighestKey ==
    [][ (turn'.stage = "pick_slot" /\ turn'.intent \notin GlobalIntents) =>
        \A user_id \in Users, raw \in {"last"} :
            ( /\ Classified(raw)
              /\ SessionBefore(user_id).slot_map # <<>> )
            => \A read \in Reads : TurnOf(user_id, raw, read) =>
                   LET slot_map == SessionBefore(user_id).slot_map
                   IN  conversation_state'[user_id].selected_slot =
                            Some(slot_map[Len(slot_map)]) ]_vars

\* C20: a turn in stage booking_link on a thanks message moves the session to end; on
\* a greeting or service_request message it clears the session and handles the message
\* as stage greeting does, which leaves the session in choose_service with the service
\* type extracted from the message (none when none is extracted) and nothing else set;
\* on any other message that post does not answer itself it leaves the stage and the
\* session fields as they were.
C20_BookingConfirmationStage ==
    [][ (turn'.stage = "booking_link" /\ turn'.intent \notin GlobalIntents) =>
        \A user_id \in Users, raw \in DialogMessages : Classified(raw) =>
            \A read \in Reads : TurnOf(user_id, raw, read) =>
                LET before == SessionBefore(user_id)
                    after == conversation_state'[user_id]
                IN  CASE turn'.intent = "thanks" -> after.stage = "end"
                      [] turn'.intent \in {"greeting", "service_request"} ->
                            SessionFields(after) =
                                << "choose_service",
                                   validate_service_type_table[strip_table[raw]],
                                   None, None, <<>>, <<>> >>
                      [] OTHER -> SessionFields(after) = SessionFields(before) ]_vars

\* a turn in stage booking_link on a greeting that names no service has left a session
\* in choose_service with nothing of the booking before it
C20_Witness ==
    /\ turn = Locals("booking_link", "greeting")
    /\ bot = Reply(200, FALSE, "greeting")
    /\ \E user_id \in DOMAIN conversation_state :
            /\ conversation_state[user_id].last_activity = now
            /\ SessionFields(conversation_state[user_id]) =
                    <<"choose_service", None, None, None, <<>>, <<>> >>

\* C21: a turn in stage end on a message classified service_request clears the session
\* and handles the message as stage greeting does: after the turn the session is in
\* choose_service, its service type is the one extracted from the message, and it has
\* no requested date, no selected slot, no snapshot and no offers.
C21_EndedServiceRequestRestarts ==
    [][ (turn'.stage = "end" /\ turn'.intent = "service_request") =>
        \A user_id \in Users, raw \in DialogMessages : Classified(raw) =>
            \A read \in Reads : TurnOf(user_id, raw, read) =>
                SessionFields(conversation_state'[user_id]) =
                    << "choose_service", validate_service_type_table[strip_table[raw]],
                       None, None, <<>>, <<>> >> ]_vars

\* the session of user_id is where the k-th message of the four-turn booking finds it:
\* none yet; in choose_service with nothing set, the day after having open slots; in
\* pick_slot with the offers of the day after; in booking_link with one of them selected
ScenarioBefore(user_id, k) ==
    LET tomorrow == DateOf(now) + 1
        state == conversation_state[user_id]
    IN  /\ weekday(tomorrow) # 6
        /\ OpenPairs("haircut", tomorrow) # {}
        /\ IF k = 1 THEN user_id \notin DOMAIN conversation_state
           ELSE /\ user_id \in DOMAIN conversation_state
                /\ state.last_activity = now
                /\ CASE k = 2 -> SessionFields(state) =
                                    <<"choose_service", None, None, None, <<>>, <<>> >>
                     [] k = 3 -> /\ state.stage = "pick_slot"
                                 /\ state.service_type = Some("haircut")
                                 /\ state.requested_date = Some(tomorrow)
                                 /\ state.selected_slot = None
                                 /\ ComputedFor(state, tomorrow)
                     [] k = 4 -> /\ state.stage = "booking_link"
                                 /\ state.requested_date = Some(tomorrow)
                                 /\ state.selected_slot # None

\* the stages of the four-turn booking, each the stage after the message of its index
ScenarioStages == <<"choose_service", "pick_slot", "booking_link", "end">>

\* C22: on a fresh session, the day after having open slots and the storage being read
\* without failure, the messages "hi", "haircut tomorrow", "1", "thanks" each move the
\* session one stage on: to choose_service, pick_slot, booking_link and end.
C22_FourTurnBooking ==
    [][ \A user_id \in Users, k \in 1..Len(ScenarioMessages) :
            ScenarioBefore(user_id, k) =>
                \A read \in Reads :
                    (~read[1] /\ TurnOf(user_id, ScenarioMessages[k], read)) =>
                        conversation_state'[user_id].stage = ScenarioStages[k] ]_vars

\* a message gives the stage of a session nothing to work with: in greeting, it is no
\* greeting and no service request; in choose_service, the session has no service type
\* and the message names none; in pick_slot, it changes no date and neither as an
\* ordinal nor by a time resolves to an offer; in booking_link, it is no thanks, no
\* greeting and no service request; in end, it is no service request
NothingUsable(before, message, intent) ==
    CASE before.stage = "greeting" -> intent \notin {"greeting", "service_request"}
      [] before.stage = "choose_service" ->
            before.service_type = None /\ validate_service_type_table[message] = None
      [] before.stage = "pick_slot" ->
            /\ ~date_change(parse_user_date_table[message, DateOf(now)], before)
            /\ Resolved(before.slot_map, message) = {}
            /\ \A i \in 1..Len(before.slot_map) :
                    parse_slot_number_table[message] # Some(ToString(i))
      [] before.stage = "booking_link" ->
            intent \notin {"thanks", "greeting", "service_request"}
      [] before.stage = "end" -> intent # "service_request"
      [] OTHER -> FALSE

\* C23: a turn on an empty message is answered with a re-prompt and touches no
\* session; a turn, at whatever stage, on a message that gives the stage nothing to
\* work with is answered without an error and leaves the stage and the fields of the
\* session as they were.
C23_UnusableInputReprompts ==
    [][ \A user_id \in Users, raw \in ChatMessages, read \in Reads :
            IF strip_table[raw] = ""
            THEN (turn' = NoLocals /\ TurnOf(user_id, raw, read)) =>
                    /\ bot' = Reply(200, FALSE, "please_send_a_message")
                    /\ conversation_state' = conversation_state
            ELSE ( /\ turn'.intent \notin GlobalIntents
                   /\ Classified(raw)
                   /\ NothingUsable(SessionBefore(user_id), strip_table[raw], turn'.intent)
                   /\ TurnOf(user_id, raw, read) )
                 => /\ bot'.status = 200
                    /\ ~bot'.error
                    /\ SessionFields(conversation_state'[user_id]) =
                            SessionFields(SessionBefore(user_id)) ]_vars

\* the session a turn served alone leaves
AfterTurn(state, message, read) ==
    LET intent == detect_intent_table[message, DateOf(now)]
    IN  IF intent \in GlobalIntents
        THEN global_outcome([state EXCEPT !.last_activity = now], intent).state
        ELSE handle_conversation_stage([state EXCEPT !.last_activity = now], intent,
                                       message, read[1], read[2]).state

\* the session the two turns started from
Greeted == [new_state(now) EXCEPT !.stage = "choose_service"]

\* the sessions that serving the two turns one after the other, in some order, may leave
OneAfterTheOther ==
    { AfterTurn(AfterTurn(Greeted, workers[first].message, read1),
                workers[3 - first].message, read2) :
        first \in Workers, read1 \in Reads, read2 \in Reads }

\* C24: when two workers have served one turn each of the same user at the same time,
\* the session is one that serving the two turns one after the other, in some order,
\* leaves.
C24_TurnsOfOneUserSerialized ==
    (\A w \in Workers : workers[w].pc = "replied") =>
        \A user_id \in Users : conversation_state[user_id] \in OneAfterTheOther

\* the sessions whose last activity is more than 24 hours old
OlderThan24Hours ==
    {u \in DOMAIN conversation_state : now - conversation_state[u].last_activity > 24 * 60}

\* C25: a step that removes a session removes the sessions whose last activity is more
\* than 24 hours old, all of them and no other, and leaves the record of every other
\* session as it was.
C25_SweepRemovesOldSessions ==
    [][ (DOMAIN conversation_state' # DOMAIN conversation_state
            /\ DOMAIN conversation_state' \subseteq DOMAIN conversation_state) =>
        /\ DOMAIN conversation_state' = DOMAIN conversation_state \ OlderThan24Hours
        /\ \A u \in DOMAIN conversation_state' :
                conversation_state'[u] = conversation_state[u] ]_vars

\* the sweep has removed the session of one user and kept the session of the other,
\* which has been idle for exactly 24 hours
C25_Witness ==
    /\ DOMAIN conversation_state = {"u2"}
    /\ now - conversation_state["u2"].last_activity = 24 * 60
    /\ conversation_state["u2"].stage = "choose_service"

\* the replies that tell the user of a failure of the system and to try again: the
\* reply of post's handler of exceptions and the one of _handle_service_selection
TryAgainReplies == {"technical_difficulties", "could_not_check_availability"}

\* C26: a turn during which the read of the slots fails is answered with a reply that
\* tells of a failure of the system, which is not the reply of a day without open
\* slots, and leaves the stage of the session as it was.
C26_FailedReadIsSystemError ==
    [][ (turn'.stage \in {"choose_service", "pick_slot"} /\ turn'.intent \notin GlobalIntents) =>
        \A user_id \in Users, raw \in DialogMessages :
            ( /\ Classified(raw)
              /\ ReadsSlots(SessionBefore(user_id), strip_table[raw]) )
            => \A read \in Reads : (read[1] /\ TurnOf(user_id, raw, read)) =>
                   /\ bot'.bot \in TryAgainReplies
                   /\ bot'.bot # "no_slots_available"
                   /\ conversation_state'[user_id].stage = SessionBefore(user_id).stage ]_vars

\* C27: the date resolved from a message that holds "day after tomorrow" is the day
\* two days after the day of the call.
C27_DayAfterTomorrow ==
    (call.fn = "parse_user_date"
        /\ Contains(strip(lower(call.args[1])), "day after tomorrow")) =>
        call.result = Some(call.args[2] + 2)

\* the weekdays (Monday 0 .. Sunday 6) that a message names
NamedWeekdays(message) ==
    {n \in 0..6 : Contains(strip(lower(message)), day_names[n + 1])}

\* a message names a weekday and no relative day
NamesWeekday(message) ==
    /\ Cardinality(NamedWeekdays(message)) = 1
    /\ \A word \in {"today", "tomorrow", "next day"} : ~Contains(strip(lower(message)), word)

\* C28: the date resolved from a message that names a weekday is the day of the call
\* plus ((target - weekday of that day - 1) mod 7) + 1 days: the next day of that name,
\* one to seven days ahead, seven when the day of the call has that name.
C28_NextNamedWeekday ==
    (call.fn = "parse_user_date" /\ NamesWeekday(call.args[1])) =>
        LET today == call.args[2]
            target == CHOOSE n \in NamedWeekdays(call.args[1]) : TRUE
            days == ((target - weekday(today) - 1) % 7) + 1
        IN  /\ call.result = Some(today + days)
            /\ days \in 1..7
            /\ (target = weekday(today)) => call.result = Some(today + 7)

\* "saturday" resolved on a Saturday: the Saturday of the week after
C28_Witness ==
    /\ call.fn = "parse_user_date"
    /\ call.args[1] = "saturday"
    /\ weekday(call.args[2]) = 5
    /\ call.result = Some(call.args[2] + 7)

\* C29: for a window, a positive duration and a buffer, the possible slots are the
\* times start + k * (duration + buffer), k = 0, 1, 2, .., with start + k * (duration +
\* buffer) + duration <= end, in ascending order; none when start + duration > end.
C29_PossibleSlots ==
    (call.fn = "possible_slots" /\ call.args[3] > 0) =>
        LET start_dt == call.args[1]
            end_dt == call.args[2]
            duration == call.args[3]
            buffer == call.args[4]
            fitting == {k \in 0..MinutesPerDay :
                            start_dt + k * (duration + buffer) + duration <= end_dt}
        IN  /\ Len(call.result) = Cardinality(fitting)
            /\ \A i \in 1..Len(call.result) :
                    /\ i - 1 \in fitting
                    /\ call.result[i] = start_dt + (i - 1) * (duration + buffer)
            /\ start_dt + duration > end_dt => call.result = <<>>

\* the window 09:00-10:30 cut into slots of 30 minutes with a buffer of 15
C29_Witness ==
    /\ call.fn = "possible_slots"
    /\ call.args = <<9 * 60, 10 * 60 + 30, 30, 15>>
    /\ call.result = <<9 * 60, 9 * 60 + 45>>

\* C30: for a service whose duration is 0 or negative the engine returns no open slot.
C30_NoSlotsWithoutDuration ==
    (call.fn = "get_available_slots_for_staff" /\ call.args[1].duration_minutes <= 0) =>
        call.result[1] = <<>>

\* the order of priority of the intents that have keywords
Priority ==
    <<"greeting", "thanks", "service_request", "date_keywords", "pricing",
      "working_hours", "cancel_restart", "help">>

\* the keywords listed for an intent
KeywordsOf(intent) ==
    UNION {SeqRange(INTENTS[k][2]) : k \in {j \in 1..Len(INTENTS) : INTENTS[j][1] = intent}}

\* the places in the order of priority of the intents of which a message, in lower
\* case, holds a keyword
Matching(message) ==
    {p \in 1..Len(Priority) :
        \E keyword \in KeywordsOf(Priority[p]) : Contains(lower(message), keyword)}

\* C31: a message that holds a keyword of some intent is classified as the first
\* intent, in the order greeting, thanks, service_request, date, pricing,
\* working_hours, cancel_restart, help, of which it holds a keyword, whatever the case
\* of its letters; of two intents with keywords in it the earlier one wins.
C31_FirstIntentInPriorityOrder ==
    (call.fn = "detect_intent" /\ Matching(call.args[1]) # {}) =>
        \E p \in Matching(call.args[1]) :
            /\ \A q \in Matching(call.args[1]) : p <= q
            /\ call.result = Priority[p]

\* a message with keywords of cancel_restart and of service_request is a service request
C31_Witness ==
    /\ call.fn = "detect_intent"
    /\ call.args[1] = "cancel my haircut"
    /\ Cardinality(Matching(call.args[1])) = 2
    /\ call.result = "service_request"

\* C35: a message that is exactly a keyword listed for an intent is classified as that
\* intent.
C35_EveryKeywordEffective ==
    call.fn = "detect_intent" =>
        \A p \in 1..Len(Priority) :
            call.args[1] \in KeywordsOf(Priority[p]) => call.result = Priority[p]

\* C32: a session in stage pick_slot has its service type and its requested date set
\* and an offer map that is not empty, every offer of which is in the snapshot; the
\* selected slot of a session in stage booking_link is an offer of its offer map.
C32_StageInvariants ==
    \A user_id \in DOMAIN conversation_state :
        LET state == conversation_state[user_id]
        IN  /\ state.stage = "pick_slot" =>
                /\ state.service_type # None
                /\ state.requested_date # None
                /\ state.slot_map # <<>>
                /\ \A i \in 1..Len(state.slot_map) :
                        InSnapshot(state.available_slots, state.slot_map[i])
            /\ state.stage = "booking_link" =>
                /\ state.selected_slot # None
                /\ state.selected_slot[1] \in SeqRange(state.slot_map)

\* a slot has just been picked: the session is in booking_link with a selected slot
C32_Witness ==
    /\ turn.stage = "pick_slot"
    /\ bot = Reply(200, FALSE, "reserved")
    /\ \E user_id \in DOMAIN conversation_state :
            /\ conversation_state[user_id].stage = "booking_link"
            /\ conversation_state[user_id].selected_slot # None
            /\ Len(conversation_state[user_id].slot_map) >= 2

\* C33: a session in stage greeting has no service type, no requested date, no
\* selected slot, an empty snapshot and an empty offer map.
C33_GreetingSessionIsEmpty ==
    \A user_id \in DOMAIN conversation_state :
        conversation_state[user_id].stage = "greeting" =>
            SessionFields(conversation_state[user_id]) =
                <<"greeting", None, None, None, <<>>, <<>> >>

\* C34: the date resolved from a message is never a day before the day of the call.
C34_NoPastDate ==
    (call.fn = "parse_user_date" /\ call.result # None) => call.result[1] >= call.args[2]

\* the minutes of a time written "H:MM" or "HH:MM"
TimeValue(hm) == IF Len(hm) = 5 THEN minutes_of_table[hm] ELSE minutes_of_table["0" \o hm]

\* the minutes of the time of an offer "<staff name> HH:MM"
OfferTime(offer) == minutes_of_table[SubSeq(offer, Len(offer) - 4, Len(offer))]

\* C36: a turn in stage pick_slot on a message that holds an HH:MM time and is not an
\* ordinal key of the offer map, and that changes no date, selects no offer but one
\* whose time is that time.
C36_TimeSelectsOnlyThatTime ==
    [][ (turn'.stage = "pick_slot" /\ turn'.intent \notin GlobalIntents) =>
        \A user_id \in Users, raw \in DialogMessages :
            ( /\ Classified(raw)
              /\ parse_time_from_message_table[strip_table[raw]] # None
              /\ ExactKeys(SessionBefore(user_id).slot_map, strip_table[raw]) = {}
              /\ ~date_change(parse_user_date_table[strip_table[raw], DateOf(now)],
                              SessionBefore(user_id)) )
            => \A read \in Reads : TurnOf(user_id, raw, read) =>
                   LET before == SessionBefore(user_id)
                       after == conversation_state'[user_id]
                   IN  after.selected_slot # before.selected_slot =>
                          /\ after.selected_slot # None
                          /\ OfferTime(after.selected_slot[1]) =
                                TimeValue(parse_time_from_message_table[strip_table[raw]][1]) ]_vars

\* a message is exactly the HH:MM time of an offer of an offer map
IsOfferTime(slot_map, message) ==
    \E i \in 1..Len(slot_map) :
        Len(message) = 5 /\ message = SubSeq(slot_map[i], Len(slot_map[i]) - 4, Len(slot_map[i]))

\* C37: a turn in stage pick_slot on a message that is exactly an ordinal key of the
\* offer map, or exactly the HH:MM time of one of its offers, leaves the requested
\* date of the session as it was.
C37_SelectionKeepsDate ==
    [][ (turn'.stage = "pick_slot" /\ turn'.intent \notin GlobalIntents) =>
        \A user_id \in Users, raw \in DialogMessages :
            ( /\ Classified(raw)
              /\ \/ ExactKeys(SessionBefore(user_id).slot_map, strip_table[raw]) # {}
                 \/ IsOfferTime(SessionBefore(user_id).slot_map, strip_table[raw]) )
            => \A read \in Reads : TurnOf(user_id, raw, read) =>
                   conversation_state'[user_id].requested_date =
                        SessionBefore(user_id).requested_date ]_vars

\* C38: a commit request that fails creates no booking and neither creates nor
\* modifies a customer.
C38_FailedCommitChangesNothing ==
    [][ \A data \in CommitInputs :
            (BookServiceAPIView_post(1, data) /\ ~resp'[1].success)
            => (bookings' = bookings /\ customers' = customers) ]_vars

\* C39: when one worker has run the sweep and another has served a turn of a user,
\* the session of the user is in the store, with the last activity the turn gave it.
C39_SweepSparesRefreshedSession ==
    \A sweeper \in Workers, server \in Workers :
        (workers[sweeper].pc = "swept" /\ workers[server].pc = "replied") =>
            /\ workers[server].user_id \in DOMAIN conversation_state
            /\ conversation_state[workers[server].user_id].last_activity = now

\* the duration of the service a booking was made for
BookedDuration(b) == duration_of(CHOOSE s \in Services : s.service_type = b.service_type)

\* the intervals [a, a + m) and [b, b + n) overlap
Overlap(a, m, b, n) == a < b + n /\ b < a + m

\* C40: no slot that the engine reports open for a service and a staff member on a date
\* overlaps, as the interval from its start over the duration of the service, the
\* interval of a pending or confirmed booking of that staff member on that date made
\* for a service of another duration.
C40_OpenSlotsOverlapNoBooking ==
    \A service \in Services, d \in QueryDates :
        \A staff \in service.staff :
            \A x \in SeqRange(open_list(service, staff, d)), i \in 1..Len(bookings) :
                ( /\ Active(bookings[i])
                  /\ bookings[i].staff = staff
                  /\ bookings[i].booking_date = d
                  /\ BookedDuration(bookings[i]) # duration_of(service) )
                => ~Overlap(minutes_of_table[x], duration_of(service),
                            bookings[i].booking_time, BookedDuration(bookings[i]))

====
